---- MODULE Spec2Model ----
(***************************************************************************)
(* Model of the knowledge graph store of agent/knowledge/knowledge_graph.py *)
(* (class KnowledgeGraph): the Entity and Relation maps, the directed      *)
(* multigraph, the type and attribute indexes and the three persisted      *)
(* files, with one action per public operation; and of the ReasoningEngine *)
(* of agent/knowledge/reasoning_engine.py built over that store: its rules *)
(* and its cache of inferences.                                            *)
(*                                                                         *)
(* Scalars: importance is kept in hundredths (0.5 is 50, 0.1 is 10), the   *)
(* wall clock in whole ticks.  Python dicts keep insertion order, which    *)
(* min() and the removal loops read: each map is a function together with  *)
(* the sequence of its keys.                                               *)
(***************************************************************************)
EXTENDS Integers, Sequences, FiniteSets, TLC

VARIABLES
    config,           \* self.config: the capacities of this store
    entities,         \* self.entities: id -> entity record
    entity_keys,      \* insertion order of self.entities
    relations,        \* self.relations: id -> relation record
    relation_keys,    \* insertion order of self.relations
    graph,            \* self.graph: nx.MultiDiGraph, [nodes, edges]
    type_index,       \* self.type_index: type -> set of ids
    attribute_index,  \* self.attribute_index: name -> value -> set of ids
    disk,             \* the three files under memory_path
    now,              \* last reading of datetime.now(timezone.utc) for an id
    reasoning_rules,  \* ReasoningEngine.reasoning_rules: list of rules
    inference_cache,  \* ReasoningEngine.inference_cache: key -> result list
    inference_cache_keys, \* insertion order of inference_cache
    candidates,       \* EntityExtractor: the list extract_entities collects
    unique_entities   \* EntityExtractor: the list extract_entities returns

vars == <<config, entities, entity_keys, relations, relation_keys, graph,
          type_index, attribute_index, disk, now, reasoning_rules,
          inference_cache, inference_cache_keys, candidates, unique_entities>>

\* the fields of the ReasoningEngine built over the store
engine == <<reasoning_rules, inference_cache, inference_cache_keys>>

extractor == <<candidates, unique_entities>>

---------------------------------------------------------------------------
(* Bounds of the model *)

\* KnowledgeConfig.max_entities, scaled down
max_entities == 2
\* KnowledgeConfig.max_relations, scaled down
max_relations == 2
\* largest clock reading
MaxClock == 2
\* get_entity is offered while access_count is below this
MaxAccess == 1

\* largest limit passed to query
MaxLimit == 3

\* KnowledgeConfig.max_entities of the store that is traversed
MaxNodes == 3
\* largest max_depth passed to find_related_entities
MaxDepth == 2

\* add_rule is offered while the engine has fewer rules than this
MaxRules == 1
\* infer is offered for a key not in the cache while the cache has fewer
\* entries than this
MaxCached == 2


\* largest number of rules in the engine whose rules are applied
ManyRules == 2


\* largest number of saves of one call that a fault may fall on
MaxSaves == 2

\* largest offset in the text of extract_entities, and the most candidates
\* found in it
MaxOffset == 2
MaxCandidates == 3

\* KnowledgeConfig.max_entities of the store whose saves fail
SaveCapacity == 1

---------------------------------------------------------------------------
(* Inputs *)

EmptyMap == [x \in {} |-> x]

\* "id" of a payload: "" stands for a missing (or empty) id
CallerIds == {"a", "b"}
\* 0.05 (below the cleanup threshold) and 0.5 (the default)
Importances == {5, 50}

EntityId(ts) == "entity_" \o ToString(ts)
RelationId(ts) == "rel_" \o ToString(ts)
ReverseId(rid) == "reverse_" \o rid

\* an id the store never held
Missing == "missing"

\* entity_data of add_entity: with or without an id, of either kind
\* (a person without attributes, a place with one) and importance
EntityPayloads ==
    {[id |-> i, name |-> "", type |-> k.type, attributes |-> k.attributes,
      description |-> "", importance |-> m] :
        i \in {"a", ""},
        k \in {[type |-> "person", attributes |-> EmptyMap],
                [type |-> "place", attributes |-> [color |-> "red"]]},
        m \in Importances}

\* entity_data with a caller-supplied id and every other field at its default
PlainEntityPayloads ==
    {[id |-> i, name |-> "", type |-> "unknown", attributes |-> EmptyMap,
      description |-> "", importance |-> 50] :
        i \in CallerIds}

\* relation_data of add_relation: from "a" to itself and from "b" to "a" at
\* the default importance, and from "a" to "b" at either importance, in one
\* direction or both
RelationPayloads ==
    [source : CallerIds, target : {"a"}, type : {"related_to"},
     importance : {50}, bidirectional : {FALSE}]
    \cup [source : {"a"}, target : {"b"}, type : {"related_to"},
          importance : Importances, bidirectional : BOOLEAN]

\* relation_data from "a" to itself with every other field at its default
PlainRelationPayloads ==
    {[source |-> "a", target |-> "a", type |-> "related_to",
      importance |-> 50, bidirectional |-> FALSE]}

\* entity_data with a caller-supplied id, of either importance
WeightedEntityPayloads ==
    {[id |-> i, name |-> "", type |-> "unknown", attributes |-> EmptyMap,
      description |-> "", importance |-> m] :
        i \in CallerIds, m \in Importances}

\* relation_data from "a" to "b", of either importance
WeightedRelationPayloads ==
    [source : {"a"}, target : {"b"}, type : {"related_to"},
     importance : Importances, bidirectional : {FALSE}]

\* entity_data for searching: two payloads for "a" (one named "Python" of
\* high importance, one without a name of importance 0) and two for "b"
\* (one with "python" in its description and in two attribute values, one
\* unrelated)
QueryEntityPayloads ==
    {[id |-> "a", name |-> "Python", type |-> "language",
      attributes |-> EmptyMap, description |-> "", importance |-> 90],
     [id |-> "b", name |-> "", type |-> "tool",
      attributes |-> [lang |-> "Python", note |-> "py"],
      description |-> "a python linter", importance |-> 50],
     [id |-> "b", name |-> "Java", type |-> "language",
      attributes |-> EmptyMap, description |-> "", importance |-> 10],
     [id |-> "a", name |-> "", type |-> "unknown",
      attributes |-> EmptyMap, description |-> "", importance |-> 0]}

\* relation_data for searching: the default type at the default importance,
\* and a type matching "python" at importance 0
QueryRelationPayloads ==
    {[source |-> "a", target |-> "b", type |-> "related_to",
      importance |-> 50, bidirectional |-> FALSE],
     [source |-> "a", target |-> "b", type |-> "uses_Python",
      importance |-> 0, bidirectional |-> FALSE]}

\* query_text of query
QueryTexts == {"python", "PY", "", "to", "q"}

\* limit of query
Limits == 0..MaxLimit

\* entity_data of the entities that are traversed: every field but the id
\* at its default
NodePayloads ==
    {[id |-> i, name |-> "", type |-> "unknown", attributes |-> EmptyMap,
      description |-> "", importance |-> 50] :
        i \in {"a", "b", "c"}}

\* relation_data of the relations that are traversed: a chain from "a" over
\* "b" to "c", and a relation between "a" and "b" in both directions
EdgePayloads ==
    {[source |-> "a", target |-> "b", type |-> "owns",
      importance |-> 50, bidirectional |-> FALSE],
     [source |-> "b", target |-> "c", type |-> "knows",
      importance |-> 50, bidirectional |-> FALSE],
     [source |-> "a", target |-> "b", type |-> "knows",
      importance |-> 50, bidirectional |-> TRUE]}

\* relation_data of graphs with self-loops, parallel edges, cycles and
\* bidirectional pairs
LoopPayloads ==
    {[source |-> "a", target |-> "a", type |-> "owns",
      importance |-> 50, bidirectional |-> FALSE],
     [source |-> "a", target |-> "b", type |-> "owns",
      importance |-> 50, bidirectional |-> FALSE],
     [source |-> "a", target |-> "b", type |-> "knows",
      importance |-> 50, bidirectional |-> TRUE]}

\* relation_types of find_related_entities: {} stands for None and []
TypeFilters == {{}, {"owns"}, {"knows"}}

\* max_depth of find_related_entities
Depths == 0..MaxDepth

\* entity_data for inference: an entity named "Python" and a tool with
\* "python" in its description and its attributes
InferEntityPayloads ==
    {[id |-> "a", name |-> "Python", type |-> "language",
      attributes |-> EmptyMap, description |-> "", importance |-> 90],
     [id |-> "b", name |-> "", type |-> "tool",
      attributes |-> [lang |-> "Python", note |-> "py"],
      description |-> "a python linter", importance |-> 50]}

\* relation_data for inference: from "a" to "b", every other field at its
\* default
InferRelationPayloads ==
    {[source |-> "a", target |-> "b", type |-> "related_to",
      importance |-> 50, bidirectional |-> FALSE]}

\* rule of add_rule: confidence in hundredths
RulePayloads ==
    {[id |-> "r1", name |-> "languages", premises |-> <<"Python", "java">>,
      conclusion |-> "it is a programming language", confidence |-> 90,
      type |-> "forward"]}

\* query and max_depth of infer
InferTexts == {"python", "PY"}
InferDepths == 1..MaxDepth


\* entity_data for the merge of inference results: three entities that
\* answer "python", one of them under the id the inference of rule "r1" gets
MergeEntityPayloads ==
    {[id |-> "a", name |-> "Python", type |-> "language",
      attributes |-> EmptyMap, description |-> "", importance |-> 90],
     [id |-> "b", name |-> "PyPy", type |-> "language",
      attributes |-> EmptyMap, description |-> "", importance |-> 50],
     [id |-> "inference_r1", name |-> "pyflakes", type |-> "tool",
      attributes |-> EmptyMap, description |-> "", importance |-> 10]}

\* relation_data for the merge: a chain over the three entities, to be
\* followed in both directions
MergeRelationPayloads ==
    {[source |-> "a", target |-> "b", type |-> "related_to",
      importance |-> 50, bidirectional |-> TRUE],
     [source |-> "b", target |-> "inference_r1", type |-> "checked_by",
      importance |-> 50, bidirectional |-> TRUE]}

\* query and max_depth of the infer whose results are merged
MergeTexts == {"python"}
MergeDepths == {MaxDepth}


\* rules of add_rule with no premise, a premise in upper case, two premises
\* of one word, and the empty premise; their confidences are 1.0, 0.8, 0.6
\* and 0.9
PremiseRulePayloads ==
    {[id |-> "r0", name |-> "none", premises |-> <<>>,
      conclusion |-> "nothing follows", confidence |-> 100, type |-> "forward"],
     [id |-> "r1", name |-> "languages", premises |-> <<"Python", "java">>,
      conclusion |-> "it is a programming language", confidence |-> 80,
      type |-> "forward"],
     [id |-> "r2", name |-> "syllables", premises |-> <<"py", "on">>,
      conclusion |-> "it is a snake", confidence |-> 60, type |-> "forward"],
     [id |-> "r3", name |-> "always", premises |-> <<"">>,
      conclusion |-> "it is a query", confidence |-> 90, type |-> "backward"]}

\* query of the infer whose rules are applied
RuleTexts == {"python", "PY", "JAVA", ""}

\* inference_id of explain_reasoning: the ids the rules' inferences get, the
\* ids of entities, and an id nothing has
ExplainIds ==
    {"inference_r0", "inference_r1", "inference_r2", "inference_r3",
     "a", "b", Missing}

\* entity_data of the store that is saved: one entity with an attribute
SaveEntityPayloads ==
    {[id |-> "a", name |-> "", type |-> "place",
      attributes |-> [color |-> "red"], description |-> "", importance |-> 50]}

\* entity_data whose attribute map holds a list: "a" with a text attribute,
\* "b" of low importance with the attribute tags = ["x"]
ListEntityPayloads ==
    {[id |-> "a", name |-> "", type |-> "place",
      attributes |-> [color |-> "red"], description |-> "", importance |-> 50],
     [id |-> "b", name |-> "", type |-> "place",
      attributes |-> [tags |-> <<"x">>], description |-> "", importance |-> 5]}

\* entity_data of two people, "b" the more important, and relation_data
\* from the one to the other
PeoplePayloads ==
    {[id |-> "a", name |-> "", type |-> "person",
      attributes |-> [color |-> "red"], description |-> "", importance |-> 50],
     [id |-> "b", name |-> "", type |-> "person",
      attributes |-> [color |-> "red"], description |-> "", importance |-> 90]}

FriendPayloads ==
    {[source |-> "a", target |-> "b", type |-> "knows",
      importance |-> 50, bidirectional |-> FALSE]}

\* the arguments of the index lookups
EntityTypes == {"person", "place"}
AttributeNames == {"color"}
AttributeValues == {"red", "blue"}

---------------------------------------------------------------------------
(* Python dict, datetime and networkx primitives *)

\* A timestamp is kept by its class alone: a datetime object, or the text
\* isoformat() and str() make of one.  The instant itself is read by no
\* operation of the store.
DateTime == "datetime"
IsoText == "str"

\* datetime.isoformat: a method of datetime objects only
isoformat(d) == IsoText

\* a variant that keeps the timestamps as the text it is given
KeepText(t) == t

\* datetime.fromisoformat: parses text
fromisoformat(t) == DateTime

Range(s) == {s[i] : i \in 1..Len(s)}

Restrict(f, S) == [x \in S |-> f[x]]

\* d[k] = v on an insertion-ordered dict: a new key goes last
KeysPut(keys, k) == IF k \in Range(keys) THEN keys ELSE Append(keys, k)

\* del d[k]
KeysDel(keys, k) == SelectSeq(keys, LAMBDA x : x # k)

MapPut(f, k, v) == [x \in DOMAIN f \cup {k} |-> IF x = k THEN v ELSE f[x]]

has_edge(g, u, v, key) ==
    \E e \in g.edges : e.u = u /\ e.v = v /\ e.key = key

\* a variant that removes every edge from u to v, whatever its key
RemoveEdgesBetween(g, u, v, key) ==
    [g EXCEPT !.edges = {e \in @ : ~(e.u = u /\ e.v = v)}]

remove_edge(g, u, v, key) ==
    [g EXCEPT !.edges = {e \in @ : ~(e.u = u /\ e.v = v /\ e.key = key)}]

\* MultiDiGraph.add_edge with an explicit key: the edge (u, v, key) is
\* created, or its data replaced; missing end nodes are created.  Of the
\* relation fields copied onto the edge only "type" is ever read back.
add_edge(g, u, v, key, data) ==
    [nodes |-> g.nodes \cup {u, v},
     edges |-> {e \in g.edges : ~(e.u = u /\ e.v = v /\ e.key = key)}
                 \cup {[u |-> u, v |-> v, key |-> key, type |-> data.type]}]

add_node(g, n) == [g EXCEPT !.nodes = @ \cup {n}]

\* MultiDiGraph.remove_node: the node and every edge at it
remove_node(g, n) ==
    [nodes |-> g.nodes \ {n},
     edges |-> {e \in g.edges : e.u # n /\ e.v # n}]

Upper == "ABCDEFGHIJKLMNOPQRSTUVWXYZ"
Lowercase == "abcdefghijklmnopqrstuvwxyz"

\* the lower case letter of each upper case letter
ToLower ==
    [c \in {SubSeq(Upper, i, i) : i \in 1..Len(Upper)} |->
        LET i == CHOOSE i \in 1..Len(Upper) : SubSeq(Upper, i, i) = c
        IN  SubSeq(Lowercase, i, i)]

\* str.lower of one character
LowerChar(c) == IF c \in DOMAIN ToLower THEN ToLower[c] ELSE c

\* str.lower
RECURSIVE lower(_)
lower(t) ==
    IF t = "" THEN ""
    ELSE LowerChar(SubSeq(t, 1, 1)) \o lower(SubSeq(t, 2, Len(t)))

\* "sub in text" of two strings
contains(text, sub) ==
    \E i \in 1..(Len(text) - Len(sub) + 1) : SubSeq(text, i, i + Len(sub) - 1) = sub

\* list.sort(key=..., reverse=True) by "relevance": the greatest first, and
\* elements of equal relevance in the order they had
RECURSIVE InsertByRelevance(_, _)
InsertByRelevance(sorted, x) ==
    IF sorted = <<>> THEN <<x>>
    ELSE IF Head(sorted).relevance >= x.relevance
         THEN <<Head(sorted)>> \o InsertByRelevance(Tail(sorted), x)
         ELSE <<x>> \o sorted

RECURSIVE SortByRelevance(_)
SortByRelevance(results) ==
    IF results = <<>> THEN <<>>
    ELSE InsertByRelevance(SortByRelevance(SubSeq(results, 1, Len(results) - 1)),
                           results[Len(results)])

\* results[:limit]
Slice(results, limit) ==
    IF limit >= 0
    THEN SubSeq(results, 1, IF limit < Len(results) THEN limit ELSE Len(results))
    ELSE SubSeq(results, 1, Len(results) + limit)

\* list(v) of a set: its elements in some order
RECURSIVE list(_)
list(S) ==
    IF S = {} THEN <<>>
    ELSE LET x == CHOOSE x \in S : TRUE IN <<x>> \o list(S \ {x})

---------------------------------------------------------------------------
(* The store as a value, for the methods that call one another *)

\* The file system of one call.  plan is what goes wrong: nothing ("ok"), or
\* the I/O operation number "at" of the save number "on" of the call raises
\* ("fail") or is where the process dies ("crash"); sticky are the temp
\* files os.remove fails on.  saves counts the saves the call has begun, log
\* keeps what each of them set out to write, crashed is set once the
\* process has died.
NoFault == [outcome |-> "ok", at |-> 0, on |-> 0, sticky |-> {}]

\* the course of one call: the fault planned for it, the saves it has
\* started, what each set out to write, whether the process has died in it,
\* and whether an exception is on its way out of it
Io(plan) ==
    [plan |-> plan, saves |-> 0, log |-> <<>>, crashed |-> FALSE,
     raised |-> FALSE]

\* the exception leaves the method: nothing after the raising statement runs
Raise(s) == [s EXCEPT !.io.raised = TRUE]

\* attribute values Python cannot hash: lists, written as tuples
Hashable(v) == v \notin {<<>>, <<"x">>}

Self ==
    [config |-> config, entities |-> entities, entity_keys |-> entity_keys,
     relations |-> relations, relation_keys |-> relation_keys,
     graph |-> graph, type_index |-> type_index,
     attribute_index |-> attribute_index, disk |-> disk, io |-> Io(NoFault)]

\* the store in a call during which plan goes wrong
SelfUnder(plan) == [Self EXCEPT !.io = Io(plan)]

\* the content of a file that was opened for writing and not written to
\* its end
Partial == [partial |-> TRUE]

\* a directory without any of the six files; a file is <<>> when it does
\* not exist and <<content>> when it does
NoFiles ==
    [graph_file |-> <<>>, entities_file |-> <<>>, indexes_file |-> <<>>,
     graph_temp |-> <<>>, entities_temp |-> <<>>, indexes_temp |-> <<>>]

TempFiles == {"graph_temp", "entities_temp", "indexes_temp"}
TargetFiles == {"graph_file", "entities_file", "indexes_file"}

\* str(datetime), what json.dump(default=str) makes of a timestamp
str(d) == IsoText

\* json_graph.node_link_data(self.graph) as json.dump writes it
node_link_data(g) ==
    [directed |-> TRUE, multigraph |-> TRUE, nodes |-> g.nodes, links |-> g.edges]

\* json_graph.node_link_graph(graph_data)
node_link_graph(data) == [nodes |-> data.nodes, edges |-> data.links]

\* what one save sets out to write into the three files
Snapshot(s) ==
    [graph_file |-> node_link_data(s.graph),
     entities_file |->
        [entities |->
            [e \in DOMAIN s.entities |->
                [s.entities[e] EXCEPT
                    !.created_at = IF @ = DateTime THEN str(@) ELSE @,
                    !.last_accessed = IF @ = DateTime THEN str(@) ELSE @]],
         keys |-> s.entity_keys],
     indexes_file |->
        [type_index |-> [k \in DOMAIN s.type_index |-> list(s.type_index[k])],
         attribute_index |->
            [k \in DOMAIN s.attribute_index |->
                [attr \in DOMAIN s.attribute_index[k] |->
                    list(s.attribute_index[k][attr])]]]]

\* the operations that write a temp file
WriteOps ==
    {"open_graph", "dump_graph", "open_entities", "dump_entities",
     "open_indexes", "dump_indexes"}

\* a variant that renames each temp file as soon as it is written
RenameAsWritten ==
    <<"open_graph", "dump_graph", "replace_graph",
      "open_entities", "dump_entities", "replace_entities",
      "open_indexes", "dump_indexes", "replace_indexes">>

\* the I/O operations of a save, in the order of the code: each temp file
\* is opened (created or truncated) and written, then each is renamed
SaveOrder ==
    <<"open_graph", "dump_graph", "open_entities", "dump_entities",
      "open_indexes", "dump_indexes",
      "replace_graph", "replace_entities", "replace_indexes">>

\* a variant that writes each target file in place
DoOpInPlace(d, snap, op) ==
    CASE op = "open_graph" -> [d EXCEPT !.graph_file = <<Partial>>]
      [] op = "dump_graph" -> [d EXCEPT !.graph_file = <<snap.graph_file>>]
      [] op = "open_entities" -> [d EXCEPT !.entities_file = <<Partial>>]
      [] op = "dump_entities" -> [d EXCEPT !.entities_file = <<snap.entities_file>>]
      [] op = "open_indexes" -> [d EXCEPT !.indexes_file = <<Partial>>]
      [] op = "dump_indexes" -> [d EXCEPT !.indexes_file = <<snap.indexes_file>>]
      [] OTHER -> d

\* one I/O operation that succeeds: open(temp, 'w'), json.dump(..., f) with
\* the close of the file, or os.replace(temp, target)
DoOp(d, snap, op) ==
    CASE op = "open_graph" -> [d EXCEPT !.graph_temp = <<Partial>>]
      [] op = "dump_graph" -> [d EXCEPT !.graph_temp = <<snap.graph_file>>]
      [] op = "open_entities" -> [d EXCEPT !.entities_temp = <<Partial>>]
      [] op = "dump_entities" -> [d EXCEPT !.entities_temp = <<snap.entities_file>>]
      [] op = "open_indexes" -> [d EXCEPT !.indexes_temp = <<Partial>>]
      [] op = "dump_indexes" -> [d EXCEPT !.indexes_temp = <<snap.indexes_file>>]
      [] op = "replace_graph" ->
             [d EXCEPT !.graph_file = d.graph_temp, !.graph_temp = <<>>]
      [] op = "replace_entities" ->
             [d EXCEPT !.entities_file = d.entities_temp, !.entities_temp = <<>>]
      [] op = "replace_indexes" ->
             [d EXCEPT !.indexes_file = d.indexes_temp, !.indexes_temp = <<>>]

\* the first n operations of ops, each succeeding
RECURSIVE RunOps(_, _, _, _)
RunOps(d, snap, ops, n) ==
    IF n = 0 THEN d
    ELSE DoOp(RunOps(d, snap, ops, n - 1), snap, ops[n])

\* a variant that leaves the temp files where they are
LeaveTemps(d, sticky) == d

\* the except clause: every temp file that exists is removed, unless
\* os.remove fails on it, which is passed over
CleanUpTemps(d, sticky) ==
    [f \in DOMAIN d |-> IF f \in TempFiles \ sticky THEN <<>> ELSE d[f]]

\* _save_knowledge_graph: the graph, the Entity map and the indexes are
\* written to temp files, which are then renamed over the three targets.
\* The operation that raises has no effect of its own (a dump that raises
\* leaves the file as open made it); the exception is caught, the temp files
\* are cleaned up and the store in memory is as it was.  Nothing follows
\* the operation the process dies at.
_save_knowledge_graph(s) ==
    LET plan == s.io.plan
        n == s.io.saves + 1
        snap == Snapshot(s)
        io == [s.io EXCEPT !.saves = n, !.log = Append(@, snap)]
    IN  IF s.io.crashed THEN s
        ELSE IF plan.outcome = "ok" \/ plan.on # n
        THEN [s EXCEPT !.disk = RunOps(@, snap, SaveOrder, Len(SaveOrder)),
                       !.io = io]
        ELSE IF plan.outcome = "fail"
        THEN [s EXCEPT !.disk = CleanUpTemps(
                                    RunOps(@, snap, SaveOrder, plan.at - 1),
                                    plan.sticky),
                       !.io = io]
        ELSE [s EXCEPT !.disk = RunOps(@, snap, SaveOrder, plan.at - 1),
                       !.io = [io EXCEPT !.crashed = TRUE]]

\* a variant that files the entity under its type and forgets its attributes
UpdateTypeIndexOnly(s, entity_id, entity) ==
    LET t == entity.type
        ti == s.type_index
    IN  [s EXCEPT !.type_index =
            MapPut(ti, t, (IF t \in DOMAIN ti THEN ti[t] ELSE {}) \cup {entity_id})]

\* "attr_value not in self.attribute_index[attr_name]" hashes the value and
\* raises TypeError when it cannot: by then the type index is updated and
\* the attribute has its (empty) map.  The attribute that raises is taken
\* to be the first of the map.
_update_entity_indexes(s, entity_id, entity) ==
    LET t == entity.type
        attrs == entity.attributes
        ti == s.type_index
        ai == s.attribute_index
        byValue(n) ==
            LET old == IF n \in DOMAIN ai THEN ai[n] ELSE EmptyMap
                v == attrs[n]
            IN  MapPut(old, v,
                       (IF v \in DOMAIN old THEN old[v] ELSE {}) \cup {entity_id})
        typed == MapPut(ti, t, (IF t \in DOMAIN ti THEN ti[t] ELSE {}) \cup {entity_id})
        unhashable == {n \in DOMAIN attrs : ~Hashable(attrs[n])}
    IN  IF unhashable # {}
        THEN Raise([s EXCEPT
                      !.type_index = typed,
                      !.attribute_index =
                          [n \in DOMAIN ai \cup unhashable |->
                              IF n \in DOMAIN ai THEN ai[n] ELSE EmptyMap]])
        ELSE
        [s EXCEPT
           !.type_index = typed,
           !.attribute_index =
               [n \in DOMAIN ai \cup DOMAIN attrs |->
                   IF n \in DOMAIN attrs THEN byValue(n) ELSE ai[n]]]

\* the value remove_relation returns
remove_relation_returns(s, relation_id) == relation_id \in DOMAIN s.relations

\* a variant that, for an id without a record, removes the graph edges
\* keyed by that id
RemoveRelationOrEdges(s, relation_id) ==
    IF relation_id \notin DOMAIN s.relations
    THEN [s EXCEPT !.graph.edges = {e \in @ : e.key # relation_id}]
    ELSE
        LET relation == s.relations[relation_id]
            g1 == remove_edge(s.graph, relation.source, relation.target, relation_id)
            g2 == remove_edge(g1, relation.target, relation.source,
                              ReverseId(relation_id))
        IN  _save_knowledge_graph(
              [s EXCEPT !.graph = g2,
                        !.relations = Restrict(@, DOMAIN @ \ {relation_id}),
                        !.relation_keys = KeysDel(@, relation_id)])

remove_relation(s, relation_id) ==
    IF relation_id \notin DOMAIN s.relations THEN s
    ELSE
        LET relation == s.relations[relation_id]
            g1 == IF has_edge(s.graph, relation.source, relation.target, relation_id)
                  THEN remove_edge(s.graph, relation.source, relation.target, relation_id)
                  ELSE s.graph
            reverse_id == ReverseId(relation_id)
            g2 == IF has_edge(g1, relation.target, relation.source, reverse_id)
                  THEN remove_edge(g1, relation.target, relation.source, reverse_id)
                  ELSE g1
        IN  _save_knowledge_graph(
              [s EXCEPT !.graph = g2,
                        !.relations = Restrict(@, DOMAIN @ \ {relation_id}),
                        !.relation_keys = KeysDel(@, relation_id)])

\* for relation_id in ids: self.remove_relation(relation_id)
RECURSIVE RemoveRelations(_, _)
RemoveRelations(s, ids) ==
    IF ids = <<>> THEN s
    ELSE RemoveRelations(remove_relation(s, Head(ids)), Tail(ids))

\* a variant that collects only the relations leaving entity_id
OutgoingRelations(s, entity_id) ==
    SelectSeq(s.relation_keys, LAMBDA rid : s.relations[rid].source = entity_id)

\* the relations remove_entity collects: those at entity_id, in dict order
IncidentRelations(s, entity_id) ==
    SelectSeq(s.relation_keys,
              LAMBDA rid : \/ s.relations[rid].source = entity_id
                           \/ s.relations[rid].target = entity_id)

\* the value remove_entity returns
remove_entity_returns(s, entity_id) == entity_id \in DOMAIN s.entities

remove_entity(s, entity_id) ==
    IF entity_id \notin DOMAIN s.entities THEN s
    ELSE
        LET entity == s.entities[entity_id]
            attrs == entity.attributes
            ti == s.type_index
            ai == s.attribute_index
            ti1 == IF entity.type \in DOMAIN ti
                   THEN [ti EXCEPT ![entity.type] = @ \ {entity_id}]
                   ELSE ti
            ai1 == [n \in DOMAIN ai |->
                      IF n \in DOMAIN attrs /\ attrs[n] \in DOMAIN ai[n]
                      THEN [ai[n] EXCEPT ![attrs[n]] = @ \ {entity_id}]
                      ELSE ai[n]]
            s1 == [s EXCEPT !.type_index = ti1, !.attribute_index = ai1]
            relations_to_remove == IncidentRelations(s, entity_id)
            s2 == RemoveRelations(s1, relations_to_remove)
            g == IF entity_id \in s2.graph.nodes
                 THEN remove_node(s2.graph, entity_id)
                 ELSE s2.graph
            \* "attr_value in self.attribute_index[attr_name]" hashes the
            \* value as well
            unhashable == {n \in DOMAIN attrs \cap DOMAIN ai : ~Hashable(attrs[n])}
        IN  IF unhashable # {} THEN Raise([s EXCEPT !.type_index = ti1])
            ELSE
            _save_knowledge_graph(
              [s2 EXCEPT !.graph = g,
                         !.entities = Restrict(@, DOMAIN @ \ {entity_id}),
                         !.entity_keys = KeysDel(@, entity_id)])

\* for entity_id in ids: self.remove_entity(entity_id)
RECURSIVE RemoveEntities(_, _)
RemoveEntities(s, ids) ==
    IF ids = <<>> \/ s.io.raised THEN s
    ELSE RemoveEntities(remove_entity(s, Head(ids)), Tail(ids))

\* importance * (1 + access_count * 0.1), times 10
EntityScore(e) == e.importance * (10 + e.access_count)

\* min(keys, key=f): the first key, in dict order, of least f
FirstMin(keys, f) ==
    LET i == CHOOSE i \in 1..Len(keys) :
                 /\ \A j \in 1..Len(keys) : f[keys[i]] <= f[keys[j]]
                 /\ \A j \in 1..(i - 1) : f[keys[j]] > f[keys[i]]
    IN  keys[i]

\* a variant that ranks by importance alone
LeastImportanceEntity(s) ==
    FirstMin(s.entity_keys,
             [eid \in DOMAIN s.entities |-> s.entities[eid].importance])

LeastImportantEntity(s) ==
    FirstMin(s.entity_keys,
             [eid \in DOMAIN s.entities |-> EntityScore(s.entities[eid])])

_remove_least_important_entity(s) ==
    IF s.entity_keys = <<>> THEN s
    ELSE remove_entity(s, LeastImportantEntity(s))

\* a variant that takes the oldest relation
OldestRelation(s) == s.relation_keys[1]

LeastImportantRelation(s) ==
    FirstMin(s.relation_keys,
             [rid \in DOMAIN s.relations |-> s.relations[rid].importance])

_remove_least_important_relation(s) ==
    IF s.relation_keys = <<>> THEN s
    ELSE remove_relation(s, LeastImportantRelation(s))

\* data.get("confidence", 1.0), in hundredths
Confidence(p) == IF "confidence" \in DOMAIN p THEN p.confidence ELSE 100

\* the id add_entity stores the payload under
NewEntityId(p, ts) == IF p.id # "" THEN p.id ELSE EntityId(ts)

\* a variant that evicts only above capacity
EntityCapacityCheckAbove(s) ==
    IF Len(s.entity_keys) > s.config.max_entities
    THEN _remove_least_important_entity(s)
    ELSE s

\* the capacity check of add_entity, which comes before the id is known
EntityCapacityCheck(s) ==
    IF Len(s.entity_keys) >= s.config.max_entities
    THEN _remove_least_important_entity(s)
    ELSE s

add_entity(s, p, ts) ==
    LET s1 == EntityCapacityCheck(s)
        entity_id == NewEntityId(p, ts)
        entity == [id |-> entity_id, name |-> p.name, type |-> p.type,
                   attributes |-> p.attributes, description |-> p.description,
                   importance |-> p.importance, created_at |-> DateTime,
                   last_accessed |-> DateTime, access_count |-> 0,
                   confidence |-> Confidence(p)]
        s2 == [s1 EXCEPT !.entities = MapPut(@, entity_id, entity),
                         !.entity_keys = KeysPut(@, entity_id),
                         !.graph = add_node(@, entity_id)]
        s3 == _update_entity_indexes(s2, entity_id, entity)
    IN  IF s1.io.raised THEN s1
        ELSE IF s3.io.raised THEN s3
        ELSE _save_knowledge_graph(s3)

\* the capacity check of add_relation, which comes before the validation
RelationCapacityCheck(s) ==
    IF Len(s.relation_keys) >= s.config.max_relations
    THEN _remove_least_important_relation(s)
    ELSE s

\* a variant that validates the source alone
InvalidSource(s, p) == p.source \notin DOMAIN s.entities

\* source_id not in self.entities or target_id not in self.entities
InvalidReference(s, p) ==
    p.source \notin DOMAIN s.entities \/ p.target \notin DOMAIN s.entities

\* raise ValueError("Source or target entity does not exist")
add_relation_raises(s, p) == InvalidReference(RelationCapacityCheck(s), p)

add_relation(s, p, ts) ==
    LET s1 == RelationCapacityCheck(s)
        relation_id == RelationId(ts)
        relation == [id |-> relation_id, source |-> p.source,
                     target |-> p.target, type |-> p.type,
                     importance |-> p.importance,
                     confidence |-> Confidence(p), created_at |-> DateTime,
                     bidirectional |-> p.bidirectional]
        g1 == add_edge(s1.graph, p.source, p.target, relation_id, relation)
        reverse_relation == [relation EXCEPT !.source = p.target,
                                             !.target = p.source,
                                             !.id = ReverseId(relation_id)]
        g2 == IF relation.bidirectional
              THEN add_edge(g1, p.target, p.source, reverse_relation.id,
                            reverse_relation)
              ELSE g1
    IN  IF add_relation_raises(s, p) THEN s1
        ELSE _save_knowledge_graph(
               [s1 EXCEPT !.relations = MapPut(@, relation_id, relation),
                          !.relation_keys = KeysPut(@, relation_id),
                          !.graph = g2])

\* a variant that sweeps every entity of low importance, read or not
SweepLowImportance(s) ==
    LET entities_to_remove ==
            SelectSeq(s.entity_keys, LAMBDA eid : s.entities[eid].importance < 10)
        s1 == RemoveEntities(s, entities_to_remove)
        relations_to_remove ==
            SelectSeq(s1.relation_keys,
                      LAMBDA rid : s1.relations[rid].importance < 10)
    IN  RemoveRelations(s1, relations_to_remove)

cleanup(s) ==
    LET entities_to_remove ==
            SelectSeq(s.entity_keys,
                      LAMBDA eid : /\ s.entities[eid].importance < 10
                                   /\ s.entities[eid].access_count = 0)
        s1 == RemoveEntities(s, entities_to_remove)
        relations_to_remove ==
            SelectSeq(s1.relation_keys,
                      LAMBDA rid : s1.relations[rid].importance < 10)
    IN  IF s1.io.raised THEN s1
        ELSE RemoveRelations(s1, relations_to_remove)

\* a variant that marks the entity as read instead of counting the reads
MarkRead(s, entity_id) ==
    IF entity_id \in DOMAIN s.entities
    THEN [s EXCEPT !.entities[entity_id].last_accessed = DateTime,
                   !.entities[entity_id].access_count = 1]
    ELSE s

get_entity(s, entity_id) ==
    IF entity_id \in DOMAIN s.entities
    THEN [s EXCEPT !.entities[entity_id].last_accessed = DateTime,
                   !.entities[entity_id].access_count = @ + 1]
    ELSE s

\* the counts of get_statistics
get_statistics(s) ==
    [total_entities |-> Len(s.entity_keys),
     total_relations |-> Len(s.relation_keys),
     graph_nodes |-> Cardinality(s.graph.nodes),
     graph_edges |-> Cardinality(s.graph.edges),
     entity_types |-> Cardinality(DOMAIN s.type_index),
     indexed_attributes |-> Cardinality(DOMAIN s.attribute_index)]

\* to_dict calls isoformat() on every stored timestamp: AttributeError when
\* one of them is text
to_dict_raises(s) ==
    \/ \E e \in DOMAIN s.entities :
          s.entities[e].created_at # DateTime \/ s.entities[e].last_accessed # DateTime
    \/ \E r \in DOMAIN s.relations : s.relations[r].created_at # DateTime

to_dict(s) ==
    [entities |->
        [e \in DOMAIN s.entities |->
            [s.entities[e] EXCEPT !.created_at = isoformat(@),
                                  !.last_accessed = isoformat(@)]],
     entity_keys |-> s.entity_keys,
     relations |->
        [r \in DOMAIN s.relations |->
            [s.relations[r] EXCEPT !.created_at = isoformat(@)]],
     relation_keys |-> s.relation_keys,
     type_index |-> [k \in DOMAIN s.type_index |-> list(s.type_index[k])],
     attribute_index |->
        [k \in DOMAIN s.attribute_index |->
            [attr \in DOMAIN s.attribute_index[k] |->
                list(s.attribute_index[k][attr])]],
     statistics |-> get_statistics(s)]

\* for relation in self.relations.values(): self.graph.add_edge(...)
RECURSIVE AddEdges(_, _, _)
AddEdges(g, rels, keys) ==
    IF keys = <<>> THEN g
    ELSE LET relation == rels[Head(keys)]
         IN  AddEdges(add_edge(g, relation.source, relation.target,
                               relation.id, relation),
                      rels, Tail(keys))

\* from_dict: the maps and the indexes are replaced by those of data and
\* the graph is rebuilt from the entities and the relation records; nothing
\* is written to disk
from_dict(s, data) ==
    LET ents == [e \in DOMAIN data.entities |->
                    [data.entities[e] EXCEPT
                        !.created_at = fromisoformat(@),
                        !.last_accessed = fromisoformat(@)]]
        rels == [r \in DOMAIN data.relations |->
                    [data.relations[r] EXCEPT !.created_at = fromisoformat(@)]]
    IN  [s EXCEPT
           !.entities = ents,
           !.entity_keys = data.entity_keys,
           !.relations = rels,
           !.relation_keys = data.relation_keys,
           !.type_index =
               [k \in DOMAIN data.type_index |-> Range(data.type_index[k])],
           !.attribute_index =
               [k \in DOMAIN data.attribute_index |->
                   [attr \in DOMAIN data.attribute_index[k] |->
                       Range(data.attribute_index[k][attr])]],
           !.graph =
               AddEdges([nodes |-> DOMAIN ents, edges |-> {}],
                        rels, data.relation_keys)]

\* the store KnowledgeGraph(config, memory_path) builds over an empty
\* directory
EmptyStore(cfg) ==
    [config |-> cfg, entities |-> EmptyMap, entity_keys |-> <<>>,
     relations |-> EmptyMap, relation_keys |-> <<>>,
     graph |-> [nodes |-> {}, edges |-> {}],
     type_index |-> EmptyMap, attribute_index |-> EmptyMap,
     disk |-> NoFiles, io |-> Io(NoFault)]

\* _load_knowledge_graph into a store just constructed: nothing is read
\* unless knowledge_graph.json exists; the three files are read in order,
\* and the first that is missing or cannot be parsed ends the loading with
\* what was assigned before it.  The Relation map is not read from any
\* file.
_load_knowledge_graph(s) ==
    LET d == s.disk
        readable(file) == file # <<>> /\ file[1] # Partial
        s1 == [s EXCEPT !.graph = node_link_graph(d.graph_file[1])]
        s2 == [s1 EXCEPT !.entities = d.entities_file[1].entities,
                         !.entity_keys = d.entities_file[1].keys]
        s3 == [s2 EXCEPT
                 !.type_index =
                     [k \in DOMAIN d.indexes_file[1].type_index |->
                         Range(d.indexes_file[1].type_index[k])],
                 !.attribute_index =
                     [k \in DOMAIN d.indexes_file[1].attribute_index |->
                         [attr \in DOMAIN d.indexes_file[1].attribute_index[k] |->
                             Range(d.indexes_file[1].attribute_index[k][attr])]]]
    IN  IF ~readable(d.graph_file) THEN s
        ELSE IF ~readable(d.entities_file) THEN s1
        ELSE IF ~readable(d.indexes_file) THEN s2
        ELSE s3

\* KnowledgeGraph(config, memory_path) over a directory that holds files
Reopened(cfg, files) ==
    _load_knowledge_graph([EmptyStore(cfg) EXCEPT !.disk = files])

\* the value get_entity returns: a copy of the record as it is after the
\* read, or None
None == [none |-> TRUE]

get_entity_returns(s, entity_id) ==
    IF entity_id \in DOMAIN s.entities
    THEN get_entity(s, entity_id).entities[entity_id]
    ELSE None

\* n calls of get_entity(entity_id), one after the other
RECURSIVE GetEntityTimes(_, _, _)
GetEntityTimes(s, entity_id, n) ==
    IF n = 0 THEN s ELSE GetEntityTimes(get_entity(s, entity_id), entity_id, n - 1)

Bit(b) == IF b THEN 1 ELSE 0

\* the relevance query gives an entity, in thousandths
\* a variant that counts the attributes once, however many values match
EntityRelevanceAnyAttribute(entity, query_lower) ==
    1000 * Bit(contains(lower(entity.name), query_lower))
    + 800 * Bit(contains(lower(entity.description), query_lower))
    + 500 * Bit(\E n \in DOMAIN entity.attributes :
                    contains(lower(entity.attributes[n]), query_lower))
    + 300 * Bit(contains(lower(entity.type), query_lower))
    + entity.importance * 3

EntityRelevance(entity, query_lower) ==
    1000 * Bit(contains(lower(entity.name), query_lower))
    + 800 * Bit(contains(lower(entity.description), query_lower))
    + 500 * Cardinality({n \in DOMAIN entity.attributes :
                            contains(lower(entity.attributes[n]), query_lower)})
    + 300 * Bit(contains(lower(entity.type), query_lower))
    + entity.importance * 3

\* the relevance query gives a relation, in thousandths
RelationRelevance(relation, query_lower) ==
    800 * Bit(contains(lower(relation.type), query_lower))
    + relation.importance * 2

\* {**entity, "type": "entity", "relevance": relevance}
EntityResult(entity, relevance) ==
    [k \in DOMAIN entity \cup {"relevance"} |->
        IF k = "relevance" THEN relevance
        ELSE IF k = "type" THEN "entity" ELSE entity[k]]

\* self.entities.get(entity_id, {}).get("name", "Unknown")
NameOf(s, entity_id) ==
    IF entity_id \in DOMAIN s.entities THEN s.entities[entity_id].name
    ELSE "Unknown"

\* {**relation, "type": "relation", "source_name": ..., "target_name": ...,
\*  "relevance": relevance}
RelationResult(s, relation, relevance) ==
    [k \in DOMAIN relation \cup {"source_name", "target_name", "relevance"} |->
        CASE k = "relevance" -> relevance
          [] k = "type" -> "relation"
          [] k = "source_name" -> NameOf(s, relation.source)
          [] k = "target_name" -> NameOf(s, relation.target)
          [] OTHER -> relation[k]]

\* the results query collects before it sorts them: the entities in dict
\* order and then the relations in dict order, each with relevance > 0
Matches(s, query_text) ==
    LET query_lower == lower(query_text)
        entity_keys_found ==
            SelectSeq(s.entity_keys,
                      LAMBDA e : EntityRelevance(s.entities[e], query_lower) > 0)
        relation_keys_found ==
            SelectSeq(s.relation_keys,
                      LAMBDA r : RelationRelevance(s.relations[r], query_lower) > 0)
    IN  [i \in 1..Len(entity_keys_found) |->
            LET entity == s.entities[entity_keys_found[i]]
            IN  EntityResult(entity, EntityRelevance(entity, query_lower))]
        \o [i \in 1..Len(relation_keys_found) |->
              LET relation == s.relations[relation_keys_found[i]]
              IN  RelationResult(s, relation,
                                 RelationRelevance(relation, query_lower))]

\* a variant that cuts the list before it is sorted
CutThenSort(s, query_text, limit) ==
    SortByRelevance(Slice(Matches(s, query_text), limit))

\* query returns a list and changes nothing in the store
query(s, query_text, limit) ==
    Slice(SortByRelevance(Matches(s, query_text)), limit)

\* a variant that follows the edges in both directions
Neighbours(g, S) ==
    {e.v : e \in {x \in g.edges : x.u \in S}}
        \cup {e.u : e \in {x \in g.edges : x.v \in S}}

\* the nodes one edge away from a node of S, following the edges' direction
Successors(g, S) == {e.v : e \in {x \in g.edges : x.u \in S}}

\* nx.single_source_shortest_path_length(graph, source, cutoff): breadth
\* first from source, level by level while cutoff > level; dist maps the
\* nodes seen so far to their level
RECURSIVE ShortestPathLevels(_, _, _, _, _)
ShortestPathLevels(g, dist, thislevel, level, cutoff) ==
    IF thislevel = {} \/ ~(cutoff > level) THEN dist
    ELSE LET nextlevel == Successors(g, thislevel) \ DOMAIN dist
         IN  ShortestPathLevels(g, dist @@ [n \in nextlevel |-> level + 1],
                                nextlevel, level + 1, cutoff)

\* a variant that puts a node on the next level whether or not it has
\* been seen
RECURSIVE RoundsRevisiting(_, _, _, _, _)
RoundsRevisiting(g, seen, thislevel, level, cutoff) ==
    IF thislevel = {} \/ ~(cutoff > level) THEN level
    ELSE RoundsRevisiting(g, seen, Successors(g, thislevel), level + 1, cutoff)

\* the number of times the loop of that search runs: it stops when the
\* level is empty or the cutoff is reached, and a level holds only nodes
\* that were not seen before
RECURSIVE Rounds(_, _, _, _, _)
Rounds(g, seen, thislevel, level, cutoff) ==
    IF thislevel = {} \/ ~(cutoff > level) THEN level
    ELSE LET nextlevel == Successors(g, thislevel) \ seen
         IN  Rounds(g, seen \cup nextlevel, nextlevel, level + 1, cutoff)

single_source_shortest_path_length(g, source, cutoff) ==
    ShortestPathLevels(g, [n \in {source} |-> 0], {source}, 0, cutoff)

\* the targets the loop of find_related_entities does not skip: reached
\* within max_depth, not the entity itself, and in the Entity map
Targets(s, entity_id, max_depth) ==
    {n \in DOMAIN single_source_shortest_path_length(s.graph, entity_id, max_depth) :
        n # entity_id /\ n \in DOMAIN s.entities}

\* find_related_entities raises NodeNotFound when the entity is not a node
\* of the graph, and TypeError at path[target_id] (a list indexed by a
\* string) for the first target it examines under a non-empty
\* relation_types; neither is a NetworkXError, so neither is caught
find_related_entities_raises(s, entity_id, relation_types, max_depth) ==
    /\ entity_id \in DOMAIN s.entities
    /\ \/ entity_id \notin s.graph.nodes
       \/ relation_types # {} /\ Targets(s, entity_id, max_depth) # {}

\* the targets in the order of the result: by distance, the order within
\* one distance being that of the graph's adjacency, which is not modelled
RECURSIVE TargetsByLevel(_, _, _, _)
TargetsByLevel(s, entity_id, max_depth, level) ==
    IF level > max_depth THEN <<>>
    ELSE LET dist == single_source_shortest_path_length(s.graph, entity_id, max_depth)
         IN  list({n \in Targets(s, entity_id, max_depth) : dist[n] = level})
             \o TargetsByLevel(s, entity_id, max_depth, level + 1)

\* for id in ids: self.get_entity(id)
RECURSIVE GetEntities(_, _)
GetEntities(s, ids) ==
    IF ids = <<>> THEN s ELSE GetEntities(get_entity(s, Head(ids)), Tail(ids))

\* a variant that fetches each matching entity through get_entity
QueryThroughGetEntity(s, query_text, limit) ==
    GetEntities(s, SelectSeq(s.entity_keys,
                             LAMBDA e : EntityRelevance(s.entities[e],
                                                        lower(query_text)) > 0))

\* the store query leaves: it reads self.entities and self.relations in
\* place, builds new dicts for its results and assigns to nothing
query_store(s, query_text, limit) == s

\* a variant that reads the entity the search starts from as well
ReadSourceToo(s, entity_id, relation_types, max_depth) ==
    IF \/ entity_id \notin DOMAIN s.entities
       \/ find_related_entities_raises(s, entity_id, relation_types, max_depth)
    THEN s
    ELSE GetEntities(s, <<entity_id>> \o TargetsByLevel(s, entity_id, max_depth, 1))

\* the store find_related_entities leaves: every entity it returns has been
\* read once; a call that raises has read none
find_related_entities(s, entity_id, relation_types, max_depth) ==
    IF \/ entity_id \notin DOMAIN s.entities
       \/ find_related_entities_raises(s, entity_id, relation_types, max_depth)
    THEN s
    ELSE GetEntities(s, TargetsByLevel(s, entity_id, max_depth, 1))

\* relationship_strength, 1.0 / (path_info + 1), as a fraction
Strength(path_info) == [num |-> 1, den |-> path_info + 1]

\* the list find_related_entities returns when it does not raise: a copy of
\* each target as read, with its distance and strength, sorted by strength
\* (which is the order of distance they are found in)
find_related_entities_returns(s, entity_id, relation_types, max_depth) ==
    IF \/ entity_id \notin DOMAIN s.entities
       \/ find_related_entities_raises(s, entity_id, relation_types, max_depth)
    THEN <<>>
    ELSE LET dist == single_source_shortest_path_length(s.graph, entity_id, max_depth)
             ids == TargetsByLevel(s, entity_id, max_depth, 1)
             after == find_related_entities(s, entity_id, relation_types, max_depth)
         IN  [i \in 1..Len(ids) |->
                [k \in DOMAIN after.entities[ids[i]]
                         \cup {"relationship_distance", "relationship_strength"} |->
                    CASE k = "relationship_distance" -> dist[ids[i]]
                      [] k = "relationship_strength" -> Strength(dist[ids[i]])
                      [] OTHER -> after.entities[ids[i]][k]]]

\* "if entity:" on what get_entity returned
Truthy(entity) == entity # None

\* the list the loop over an index set builds: get_entity of each id, in
\* the order of the set, kept when it is not None
Kept(s, ids) ==
    LET order == list(ids)
    IN  SelectSeq([i \in 1..Len(order) |-> get_entity_returns(s, order[i])],
                  Truthy)

\* entities.sort(key=lambda x: x["importance"], reverse=True) raises
\* TypeError on a None in the list
SortRaises(found) == \E i \in 1..Len(found) : found[i] = None

RECURSIVE InsertByImportance(_, _)
InsertByImportance(sorted, x) ==
    IF sorted = <<>> THEN <<x>>
    ELSE IF Head(sorted).importance >= x.importance
         THEN <<Head(sorted)>> \o InsertByImportance(Tail(sorted), x)
         ELSE <<x>> \o sorted

RECURSIVE SortByImportance(_)
SortByImportance(found) ==
    IF found = <<>> THEN <<>>
    ELSE InsertByImportance(SortByImportance(SubSeq(found, 1, Len(found) - 1)),
                            found[Len(found)])

\* the ids the type index files under entity_type
OfType(s, entity_type) ==
    IF entity_type \in DOMAIN s.type_index THEN s.type_index[entity_type] ELSE {}

find_entities_by_type_raises(s, entity_type, limit) ==
    SortRaises(Kept(s, OfType(s, entity_type)))

\* the store find_entities_by_type leaves: every indexed id has been passed
\* to get_entity, which counts the read of a stored entity
find_entities_by_type(s, entity_type, limit) ==
    GetEntities(s, list(OfType(s, entity_type)))

find_entities_by_type_returns(s, entity_type, limit) ==
    IF find_entities_by_type_raises(s, entity_type, limit) THEN <<>>
    ELSE Slice(SortByImportance(Kept(s, OfType(s, entity_type))), limit)

\* the ids the attribute index files under attribute_name = attribute_value
WithAttribute(s, attribute_name, attribute_value) ==
    IF /\ attribute_name \in DOMAIN s.attribute_index
       /\ attribute_value \in DOMAIN s.attribute_index[attribute_name]
    THEN s.attribute_index[attribute_name][attribute_value]
    ELSE {}

find_entities_by_attribute_raises(s, attribute_name, attribute_value, limit) ==
    SortRaises(Kept(s, WithAttribute(s, attribute_name, attribute_value)))

find_entities_by_attribute(s, attribute_name, attribute_value, limit) ==
    GetEntities(s, list(WithAttribute(s, attribute_name, attribute_value)))

find_entities_by_attribute_returns(s, attribute_name, attribute_value, limit) ==
    IF find_entities_by_attribute_raises(s, attribute_name, attribute_value, limit)
    THEN <<>>
    ELSE Slice(SortByImportance(
                   Kept(s, WithAttribute(s, attribute_name, attribute_value))),
               limit)

---------------------------------------------------------------------------
(* The reasoning engine.  Relevance is in thousandths; that of a graph     *)
(* inference, 0.8 times a strength 1 / n, is the fraction 800 / n of them. *)

\* the limit of query when the caller passes none
DefaultLimit == 10

\* the number of results infer caches and returns
TopResults == 10

\* add_rule appends the rule under the id it brings
add_rule(rules, rule) ==
    Append(rules, [id |-> rule.id, name |-> rule.name,
                   premises |-> rule.premises, conclusion |-> rule.conclusion,
                   confidence |-> rule.confidence, type |-> rule.type])

\* a variant that looks for the premises as they are written
premises_match_as_written(rule, query_lower) ==
    \E i \in 1..Len(rule.premises) : contains(query_lower, rule.premises[i])

\* any(premise.lower() in query_lower for premise in rule["premises"])
premises_match(rule, query_lower) ==
    \E i \in 1..Len(rule.premises) : contains(query_lower, lower(rule.premises[i]))

\* _apply_rules: one inference for each rule that fires, in list order
_apply_rules(rules, query_text) ==
    LET query_lower == lower(query_text)
        fired == SelectSeq(rules, LAMBDA rule : premises_match(rule, query_lower))
    IN  [i \in 1..Len(fired) |->
            [id |-> "inference_" \o fired[i].id,
             type |-> "inference",
             content |-> fired[i].conclusion,
             rule_applied |-> fired[i].name,
             confidence |-> fired[i].confidence,
             relevance |-> 700,
             reasoning_type |-> "rule_based"]]

\* a variant whose relevance is the strength itself
GraphInferencesUnscaled(entity_result, related_entities) ==
    [i \in 1..Len(related_entities) |->
        LET related == related_entities[i]
        IN  [id |-> "graph_inference_" \o entity_result.id \o "_" \o related.id,
             type |-> "graph_inference",
             content |-> entity_result.name \o " is related to " \o related.name,
             source_entity |-> entity_result.name,
             target_entity |-> related.name,
             relationship_strength |-> related.relationship_strength,
             relationship_distance |-> related.relationship_distance,
             confidence |-> related.relationship_strength,
             relevance |-> related.relationship_strength,
             reasoning_type |-> "graph_based"]]

\* the inferences _graph_reasoning makes of one entity result and the
\* entities related to it
GraphInferences(entity_result, related_entities) ==
    [i \in 1..Len(related_entities) |->
        LET related == related_entities[i]
        IN  [id |-> "graph_inference_" \o entity_result.id \o "_" \o related.id,
             type |-> "graph_inference",
             content |-> entity_result.name \o " is related to " \o related.name,
             source_entity |-> entity_result.name,
             target_entity |-> related.name,
             relationship_strength |-> related.relationship_strength,
             relationship_distance |-> related.relationship_distance,
             confidence |-> related.relationship_strength,
             relevance |-> [num |-> 800 * related.relationship_strength.num,
                            den |-> related.relationship_strength.den],
             reasoning_type |-> "graph_based"]]

\* the loop of _graph_reasoning over query_results: each entity result is
\* traversed in the store the traversals before it have left
RECURSIVE GraphReasoningLoop(_, _, _, _)
GraphReasoningLoop(s, query_results, max_depth, results) ==
    IF query_results = <<>> THEN [store |-> s, results |-> results]
    ELSE LET entity_result == Head(query_results)
         IN  IF entity_result.type = "entity"
             THEN GraphReasoningLoop(
                      find_related_entities(s, entity_result.id, {}, max_depth),
                      Tail(query_results), max_depth,
                      results \o GraphInferences(
                          entity_result,
                          find_related_entities_returns(s, entity_result.id, {},
                                                        max_depth)))
             ELSE GraphReasoningLoop(s, Tail(query_results), max_depth, results)

\* _graph_reasoning: the store it leaves and the inferences it returns
_graph_reasoning(s, query_text, max_depth) ==
    GraphReasoningLoop(s, query(s, lower(query_text), DefaultLimit),
                       max_depth, <<>>)

\* a variant that keeps every result, whatever its id
KeepAll(results, seen_ids) == results

\* the first result of each id, in list order
RECURSIVE Unique(_, _)
Unique(results, seen_ids) ==
    IF results = <<>> THEN <<>>
    ELSE IF Head(results).id \in seen_ids
         THEN Unique(Tail(results), seen_ids)
         ELSE <<Head(results)>>
                  \o Unique(Tail(results), seen_ids \cup {Head(results).id})

\* x.get("relevance", 0) in units of 1/12000, a common denominator
Rank(x) ==
    IF x.type = "graph_inference"
    THEN (x.relevance.num * 12) \div x.relevance.den
    ELSE x.relevance * 12

\* unique_results.sort(key=relevance, reverse=True): stable
RECURSIVE InsertByRank(_, _)
InsertByRank(sorted, x) ==
    IF sorted = <<>> THEN <<x>>
    ELSE IF Rank(Head(sorted)) >= Rank(x)
         THEN <<Head(sorted)>> \o InsertByRank(Tail(sorted), x)
         ELSE <<x>> \o sorted

RECURSIVE SortByRank(_)
SortByRank(results) ==
    IF results = <<>> THEN <<>>
    ELSE InsertByRank(SortByRank(SubSeq(results, 1, Len(results) - 1)),
                      results[Len(results)])

\* cache_key = f"{query}_{max_depth}"
cache_key(query_text, max_depth) == query_text \o "_" \o ToString(max_depth)

\* what infer computes when the key is not in the cache
Inferred(s, rules, query_text, max_depth) ==
    LET direct_results == query(s, query_text, DefaultLimit)
        rule_results == _apply_rules(rules, query_text)
        reasoned == _graph_reasoning(s, query_text, max_depth)
        unique_results ==
            SortByRank(Unique(direct_results \o rule_results \o reasoned.results,
                              {}))
    IN  [store |-> reasoned.store, results |-> Slice(unique_results, TopResults)]

\* a variant that computes the results again when the store has changed
\* since they were cached
infer_fresh(s, rules, cache, query_text, max_depth) ==
    LET computed == Inferred(s, rules, query_text, max_depth)
    IN  [store |-> computed.store,
         cache |-> MapPut(cache, cache_key(query_text, max_depth),
                          computed.results),
         returns |-> computed.results]

\* infer: the store and the cache it leaves, and the list it returns
infer(s, rules, cache, query_text, max_depth) ==
    LET key == cache_key(query_text, max_depth)
        computed == Inferred(s, rules, query_text, max_depth)
    IN  IF key \in DOMAIN cache
        THEN [store |-> s, cache |-> cache, returns |-> cache[key]]
        ELSE [store |-> computed.store,
              cache |-> MapPut(cache, key, computed.results),
              returns |-> computed.results]

\* the results of every cached list, in the order of
\* self.inference_cache.values()
RECURSIVE CachedResults(_, _)
CachedResults(cache, keys) ==
    IF keys = <<>> THEN <<>>
    ELSE cache[Head(keys)] \o CachedResults(cache, Tail(keys))

\* f"{strength:.2f}" of a strength num / den below 10; the strengths
\* 1 / (distance + 1) of this model are never half way between two
\* hundredths
TwoDecimals(strength) ==
    LET q == (100 * strength.num) \div strength.den
        r == (100 * strength.num) % strength.den
        h == IF 2 * r > strength.den THEN q + 1 ELSE q
    IN  ToString(h \div 100) \o "." \o ToString((h % 100) \div 10)
            \o ToString(h % 10)

\* _generate_explanation: the text depends on reasoning_type, which the
\* results of query do not have
_generate_explanation(inference) ==
    LET reasoning_type == IF "reasoning_type" \in DOMAIN inference
                          THEN inference.reasoning_type ELSE "unknown"
    IN  CASE reasoning_type = "rule_based" ->
                 "This conclusion was derived using the reasoning rule: "
                     \o inference.rule_applied
          [] reasoning_type = "graph_based" ->
                 "This inference is based on the relationship between "
                     \o inference.source_entity \o " and "
                     \o inference.target_entity \o " (strength: "
                     \o TwoDecimals(inference.relationship_strength) \o ")"
          [] OTHER -> "This inference was generated through logical reasoning."

\* inference.get("confidence", 0) > hundredths / 100: the confidence of a
\* graph inference is a strength, a fraction; every other is in hundredths
ConfidenceAbove(inference, hundredths) ==
    IF "confidence" \notin DOMAIN inference THEN 0 > hundredths
    ELSE IF inference.type = "graph_inference"
         THEN inference.confidence.num * 100 > hundredths * inference.confidence.den
         ELSE inference.confidence > hundredths

\* the factor of each reasoning_type
TypeFactor(inference) ==
    LET reasoning_type == IF "reasoning_type" \in DOMAIN inference
                          THEN inference.reasoning_type ELSE ""
    IN  CASE reasoning_type = "rule_based" ->
                 <<"Based on established reasoning rules">>
          [] reasoning_type = "graph_based" ->
                 <<"Based on knowledge graph relationships">>
          [] OTHER -> <<>>

\* a variant whose high confidence starts at 0.8
ConfidenceFactorsFrom(inference) ==
    (IF ~ConfidenceAbove(inference, 79)
     THEN <<"Lower confidence due to limited evidence">>
     ELSE <<"High confidence based on strong evidence">>)
        \o TypeFactor(inference)

_analyze_confidence_factors(inference) ==
    (IF ConfidenceAbove(inference, 80)
     THEN <<"High confidence based on strong evidence">>
     ELSE IF ConfidenceAbove(inference, 60)
          THEN <<"Moderate confidence based on available evidence">>
          ELSE <<"Lower confidence due to limited evidence">>)
        \o TypeFactor(inference)

\* the value of explain_reasoning when no cached result has the id
NotFound == [error |-> "Inference not found"]

\* explain_reasoning: the first cached result of that id, explained
explain_reasoning(cache, keys, inference_id) ==
    LET found == SelectSeq(CachedResults(cache, keys),
                           LAMBDA result : result.id = inference_id)
    IN  IF found = <<>> THEN NotFound
        ELSE [inference |-> found[1],
              explanation |-> _generate_explanation(found[1]),
              confidence_factors |-> _analyze_confidence_factors(found[1])]

---------------------------------------------------------------------------
(* The entity extractor.  The matches of the patterns and of the           *)
(* dictionaries in a text are given as the list of candidates they are     *)
(* appended to, in the order they are found.                               *)

\* a candidate: its type and the offsets of its text
Candidates ==
    {c \in [type : {"person", "technology"}, start : 0..MaxOffset,
            end : 0..MaxOffset] : c.start < c.end}

\* the lists of up to n candidates
RECURSIVE ListsUpTo(_)
ListsUpTo(n) ==
    IF n = 0 THEN {<<>>}
    ELSE ListsUpTo(n - 1)
         \cup {Append(l, c) : l \in {x \in ListsUpTo(n - 1) : Len(x) = n - 1},
                              c \in Candidates}

CandidateLists == ListsUpTo(MaxCandidates)

\* a variant that tells the spans apart by their start alone
StartAlone(entity) == <<entity.start>>

\* span = (entity["start"], entity["end"])
Span(entity) == <<entity.start, entity.end>>

\* the loop of _remove_duplicates: a candidate is appended when its span
\* has not been seen
RECURSIVE RemoveLoop(_, _, _)
RemoveLoop(unique, seen_spans, found) ==
    IF found = <<>> THEN unique
    ELSE LET entity == Head(found)
         IN  IF Span(entity) \notin seen_spans
             THEN RemoveLoop(Append(unique, entity),
                             seen_spans \cup {Span(entity)}, Tail(found))
             ELSE RemoveLoop(unique, seen_spans, Tail(found))

_remove_duplicates(found) == RemoveLoop(<<>>, {}, found)

\* unique_entities.sort(key=lambda x: x["start"]): a stable sort
RECURSIVE InsertByStart(_, _)
InsertByStart(sorted, x) ==
    IF sorted = <<>> THEN <<x>>
    ELSE IF Head(sorted).start <= x.start
         THEN <<Head(sorted)>> \o InsertByStart(Tail(sorted), x)
         ELSE <<x>> \o sorted

RECURSIVE SortByStart(_)
SortByStart(found) ==
    IF found = <<>> THEN <<>>
    ELSE InsertByStart(SortByStart(SubSeq(found, 1, Len(found) - 1)),
                       found[Len(found)])

\* extract_entities from the candidates on
extract_entities(found) == SortByStart(_remove_duplicates(found))

---------------------------------------------------------------------------
(* The state machine *)

Store(s) ==
    /\ config' = s.config
    /\ entities' = s.entities
    /\ entity_keys' = s.entity_keys
    /\ relations' = s.relations
    /\ relation_keys' = s.relation_keys
    /\ graph' = s.graph
    /\ type_index' = s.type_index
    /\ attribute_index' = s.attribute_index
    /\ disk' = s.disk
    /\ UNCHANGED extractor

\* the clock does not run backwards; two readings may be equal
Readings == {ts \in {now, now + 1} : ts <= MaxClock}

\* KnowledgeGraph(config, memory_path) over an empty directory, and
\* ReasoningEngine(knowledge_graph) over it
Construct(cfg) ==
    /\ config = cfg
    /\ entities = EmptyMap
    /\ entity_keys = <<>>
    /\ relations = EmptyMap
    /\ relation_keys = <<>>
    /\ graph = [nodes |-> {}, edges |-> {}]
    /\ type_index = EmptyMap
    /\ attribute_index = EmptyMap
    /\ disk = NoFiles
    /\ now = 0
    /\ reasoning_rules = <<>>
    /\ inference_cache = EmptyMap
    /\ inference_cache_keys = <<>>
    /\ candidates = <<>>
    /\ unique_entities = <<>>

Init == Construct([max_entities |-> max_entities, max_relations |-> max_relations])

\* the clock is read for the id only when the payload brings none
AddEntity(payloads) ==
    \E p \in payloads, ts \in Readings :
        /\ Store(add_entity(Self, p, ts))
        /\ now' = IF p.id # "" THEN now ELSE ts
        /\ UNCHANGED engine

\* the clock is read for the id only after the validation has passed
AddRelation(payloads) ==
    \E p \in payloads, ts \in Readings :
        /\ Store(add_relation(Self, p, ts))
        /\ now' = IF add_relation_raises(Self, p) THEN now ELSE ts
        /\ UNCHANGED engine

\* remove_entity is called with the id of a stored entity or with an id
\* that is not in the store
RemoveEntity ==
    \E entity_id \in DOMAIN entities \cup {Missing} :
        /\ Store(remove_entity(Self, entity_id))
        /\ UNCHANGED <<now, engine>>

\* remove_relation is called with the id of a stored relation, with the
\* reverse_ id of one, or with an id that is not in the store
RemoveRelation ==
    \E relation_id \in DOMAIN relations
                        \cup {ReverseId(r) : r \in DOMAIN relations} \cup {Missing} :
        /\ Store(remove_relation(Self, relation_id))
        /\ UNCHANGED <<now, engine>>

Cleanup ==
    /\ Store(cleanup(Self))
    /\ UNCHANGED <<now, engine>>

GetEntity ==
    \E entity_id \in DOMAIN entities \cup {Missing} :
        /\ entity_id \in DOMAIN entities => entities[entity_id].access_count < MaxAccess
        /\ Store(get_entity(Self, entity_id))
        /\ UNCHANGED <<now, engine>>

\* query reads the store and writes nothing
Query ==
    \E query_text \in QueryTexts, limit \in Limits :
        LET results == query(Self, query_text, limit)
        IN  /\ Store(query_store(Self, query_text, limit))
            /\ UNCHANGED <<now, engine>>

\* find_related_entities reads every entity it returns; it is offered while
\* these reads stay below MaxAccess
FindRelatedEntities ==
    \E entity_id \in DOMAIN entities \cup {Missing},
       relation_types \in TypeFilters, max_depth \in Depths :
        LET after == find_related_entities(Self, entity_id, relation_types,
                                           max_depth)
        IN  /\ \A e \in DOMAIN after.entities :
                  after.entities[e].access_count <= MaxAccess
            /\ Store(after)
            /\ UNCHANGED <<now, engine>>

\* the index lookups read every stored entity they find; they are offered
\* while these reads stay below MaxAccess
FindEntitiesByType ==
    \E entity_type \in EntityTypes, limit \in Limits :
        LET after == find_entities_by_type(Self, entity_type, limit)
        IN  /\ \A e \in DOMAIN after.entities :
                  after.entities[e].access_count <= MaxAccess
            /\ Store(after)
            /\ UNCHANGED <<now, engine>>

FindEntitiesByAttribute ==
    \E attribute_name \in AttributeNames, attribute_value \in AttributeValues,
       limit \in Limits :
        LET after == find_entities_by_attribute(Self, attribute_name,
                                                attribute_value, limit)
        IN  /\ \A e \in DOMAIN after.entities :
                  after.entities[e].access_count <= MaxAccess
            /\ Store(after)
            /\ UNCHANGED <<now, engine>>

\* the temp files os.remove fails on: none, one of them, or all
StickySets == {{}, {"entities_temp"}, TempFiles}

\* an I/O operation of one of the first MaxSaves saves of the call raises
FailPlans ==
    [outcome : {"fail"}, at : 1..Len(SaveOrder), on : 1..MaxSaves,
     sticky : StickySets]

\* the process dies at an I/O operation of one of these saves, or after the
\* last of them
CrashPlans ==
    [outcome : {"crash"}, at : 1..(Len(SaveOrder) + 1), on : 1..MaxSaves,
     sticky : {{}}]

\* the mutating calls that can be made of store s, each with the store and
\* the clock it leaves
Calls(s, entity_payloads, relation_payloads) ==
    {[out |-> add_entity(s, p, ts), now |-> IF p.id # "" THEN now ELSE ts] :
        p \in entity_payloads, ts \in Readings}
    \cup {[out |-> add_relation(s, p, ts),
           now |-> IF add_relation_raises(s, p) THEN now ELSE ts] :
            p \in relation_payloads, ts \in Readings}
    \cup {[out |-> remove_entity(s, entity_id), now |-> now] :
            entity_id \in DOMAIN s.entities}
    \cup {[out |-> remove_relation(s, relation_id), now |-> now] :
            relation_id \in DOMAIN s.relations}

\* a rename of entities.json or of indexes.json fails, in one of the saves
\* of the call, after the renames before it were done
RenameFailPlans ==
    [outcome : {"fail"}, at : {8, 9}, on : 1..MaxSaves, sticky : {{}}]

\* a mutating call in which such a rename fails
RenameFailingCall(entity_payloads, relation_payloads) ==
    \E plan \in RenameFailPlans :
        \E call \in Calls(SelfUnder(plan), entity_payloads, relation_payloads) :
            /\ call.out.io.saves >= plan.on
            /\ Store(call.out)
            /\ now' = call.now
            /\ UNCHANGED engine

\* a mutating call one of whose saves fails
FailingCall(entity_payloads, relation_payloads) ==
    \E plan \in FailPlans :
        \E call \in Calls(SelfUnder(plan), entity_payloads, relation_payloads) :
            /\ call.out.io.saves >= plan.on
            /\ Store(call.out)
            /\ now' = call.now
            /\ UNCHANGED engine

\* the process dies in a save of a mutating call; a new process constructs
\* the store over the directory as it was left, with a new engine
CrashingCall(entity_payloads, relation_payloads) ==
    \E plan \in CrashPlans :
        \E call \in Calls(SelfUnder(plan), entity_payloads, relation_payloads) :
            /\ call.out.io.crashed
            /\ Store(Reopened(config, call.out.disk))
            /\ now' = call.now
            /\ reasoning_rules' = <<>>
            /\ inference_cache' = EmptyMap
            /\ inference_cache_keys' = <<>>

\* the process ends between two calls and a new one constructs the store
\* over the same directory
Restart ==
    /\ Store(Reopened(config, disk))
    /\ reasoning_rules' = <<>>
    /\ inference_cache' = EmptyMap
    /\ inference_cache_keys' = <<>>
    /\ UNCHANGED now

\* the variables of the store
store_vars == <<config, entities, entity_keys, relations, relation_keys, graph,
                type_index, attribute_index, disk>>

AddRuleOf(payloads, max_rules) ==
    \E rule \in payloads :
        /\ Len(reasoning_rules) < max_rules
        /\ reasoning_rules' = add_rule(reasoning_rules, rule)
        /\ UNCHANGED <<store_vars, now, inference_cache, inference_cache_keys,
                       extractor>>

\* infer answers from the cache, or computes, caches and reads the entities
\* its traversals return
InferOf(texts, depths) ==
    \E query_text \in texts, max_depth \in depths :
        LET out == infer(Self, reasoning_rules, inference_cache, query_text,
                         max_depth)
        IN  /\ cache_key(query_text, max_depth) \notin DOMAIN inference_cache
                  => Cardinality(DOMAIN inference_cache) < MaxCached
            /\ \A e \in DOMAIN out.store.entities :
                  out.store.entities[e].access_count <= MaxAccess
            /\ Store(out.store)
            /\ inference_cache' = out.cache
            /\ inference_cache_keys' =
                   KeysPut(inference_cache_keys, cache_key(query_text, max_depth))
            /\ UNCHANGED <<now, reasoning_rules>>

Infer == InferOf(InferTexts, InferDepths)

\* explain_reasoning reads the cache and writes nothing
ExplainReasoning ==
    \E inference_id \in ExplainIds :
        LET explanation == explain_reasoning(inference_cache,
                                             inference_cache_keys, inference_id)
        IN  UNCHANGED vars

AddRule == AddRuleOf(RulePayloads, MaxRules)

\* relation traffic between caller-named entities of default payload
Next ==
    \/ AddEntity(PlainEntityPayloads)
    \/ AddRelation(RelationPayloads)
    \/ RemoveEntity
    \/ RemoveRelation
    \/ Cleanup

Spec == Init /\ [][Next]_vars

\* entity traffic of every payload, with reads, and one kind of relation
NextIndex ==
    \/ AddEntity(EntityPayloads)
    \/ AddRelation(PlainRelationPayloads)
    \/ RemoveEntity
    \/ RemoveRelation
    \/ Cleanup
    \/ GetEntity

SpecIndex == Init /\ [][NextIndex]_vars

\* entities and relations of low and default importance, with reads
NextCleanup ==
    \/ AddEntity(WeightedEntityPayloads)
    \/ AddRelation(WeightedRelationPayloads)
    \/ RemoveEntity
    \/ RemoveRelation
    \/ GetEntity
    \/ Cleanup

SpecCleanup == Init /\ [][NextCleanup]_vars

\* named and described entities and typed relations, searched by text
NextQuery ==
    \/ AddEntity(QueryEntityPayloads)
    \/ AddRelation(QueryRelationPayloads)
    \/ RemoveEntity
    \/ RemoveRelation
    \/ Cleanup
    \/ Query

SpecQuery == Init /\ [][NextQuery]_vars

\* three entities and the relations between them, traversed; entities and
\* relations leave this store by eviction
NextGraph ==
    \/ AddEntity(NodePayloads)
    \/ AddRelation(EdgePayloads)
    \/ FindRelatedEntities

InitGraph == Construct([max_entities |-> MaxNodes, max_relations |-> max_relations])

SpecGraph == InitGraph /\ [][NextGraph]_vars

\* a store of two entities and a relation, with rules and inference
NextInfer ==
    \/ AddEntity(InferEntityPayloads)
    \/ AddRelation(InferRelationPayloads)
    \/ RemoveEntity
    \/ RemoveRelation
    \/ Cleanup
    \/ AddRule
    \/ Infer

SpecInfer == Init /\ [][NextInfer]_vars

\* a store of three entities in a chain, with a rule and inference
NextMerge ==
    \/ AddEntity(MergeEntityPayloads)
    \/ AddRelation(MergeRelationPayloads)
    \/ AddRule
    \/ InferOf(MergeTexts, MergeDepths)

SpecMerge == InitGraph /\ [][NextMerge]_vars

\* an engine of up to ManyRules rules over a store of entities
NextRules ==
    \/ AddEntity(InferEntityPayloads)
    \/ AddRuleOf(PremiseRulePayloads, ManyRules)
    \/ InferOf(RuleTexts, {1})
    \/ ExplainReasoning

SpecRules == Init /\ [][NextRules]_vars

\* a store whose saves fail, whose process dies and is started again
NextSave ==
    \/ AddEntity(SaveEntityPayloads)
    \/ RemoveEntity
    \/ FailingCall(SaveEntityPayloads, {})
    \/ CrashingCall(SaveEntityPayloads, {})
    \/ Restart

InitSave == Construct([max_entities |-> SaveCapacity, max_relations |-> max_relations])

SpecSave == InitSave /\ [][NextSave]_vars

\* a store whose callers pass lists as attribute values
NextList ==
    \/ AddEntity(ListEntityPayloads)
    \/ AddRelation(PlainRelationPayloads)
    \/ RemoveEntity
    \/ RemoveRelation
    \/ Cleanup

SpecList == Init /\ [][NextList]_vars

\* a store read through its indexes and its graph after renames have
\* failed and the process was started again
NextStale ==
    \/ AddEntity(PeoplePayloads)
    \/ AddRelation(FriendPayloads)
    \/ RenameFailingCall(PeoplePayloads, FriendPayloads)
    \/ Restart
    \/ FindEntitiesByType
    \/ FindEntitiesByAttribute

SpecStale == Init /\ [][NextStale]_vars

\* a graph with loops is built
NextLoops ==
    \/ AddEntity(PlainEntityPayloads)
    \/ AddRelation(LoopPayloads)

SpecLoops == Init /\ [][NextLoops]_vars

\* extract_entities is called with a text in which the patterns and the
\* dictionaries find these candidates
ExtractEntities ==
    \E found \in CandidateLists :
        /\ candidates' = found
        /\ unique_entities' = extract_entities(found)
        /\ UNCHANGED <<store_vars, now, engine>>

NextExtract == ExtractEntities

SpecExtract == Init /\ [][NextExtract]_vars

---------------------------------------------------------------------------
(* Properties of the store.  A property of one call is stated over every   *)
(* reachable store and every input of the call: the store the call leaves  *)
(* is the value of the method's definition.                                *)

\* C1: every entity of the Entity map is in type_index under its type and
\* in attribute_index under each of its (attribute, value) pairs.
C1_IndexCompleteness ==
    \A e \in DOMAIN entities :
        LET entity == entities[e]
        IN  /\ entity.type \in DOMAIN type_index
            /\ e \in type_index[entity.type]
            /\ \A n \in DOMAIN entity.attributes :
                  /\ n \in DOMAIN attribute_index
                  /\ entity.attributes[n] \in DOMAIN attribute_index[n]
                  /\ e \in attribute_index[n][entity.attributes[n]]

\* C1 witness: "a" was stored as a person, then again as a place with an
\* attribute, beside a second entity, and is indexed as what it is now.
C1_Witness ==
    /\ "a" \in DOMAIN entities
    /\ entities["a"].type = "place"
    /\ "person" \in DOMAIN type_index /\ "a" \in type_index["person"]
    /\ "color" \in DOMAIN attribute_index
    /\ "a" \in attribute_index["color"]["red"]
    /\ Len(entity_keys) = max_entities

\* C2: every id held by a type_index set or an attribute_index set is a key
\* of the Entity map.
C2_NoDanglingIndexEntries ==
    /\ \A t \in DOMAIN type_index : type_index[t] \subseteq DOMAIN entities
    /\ \A n \in DOMAIN attribute_index :
          \A v \in DOMAIN attribute_index[n] :
              attribute_index[n][v] \subseteq DOMAIN entities

\* C3: every relation of the Relation map has a source and a target that
\* are keys of the Entity map.
C3_ReferentialIntegrity ==
    \A r \in DOMAIN relations :
        /\ relations[r].source \in DOMAIN entities
        /\ relations[r].target \in DOMAIN entities

\* C3 witness: a store in which removing an entity takes relations with it
\* and leaves others behind.
C3_Witness ==
    \E x \in DOMAIN entities :
        /\ IncidentRelations(Self, x) # <<>>
        /\ remove_entity(Self, x).relation_keys # <<>>

\* C4: an add_relation that raises the invalid-reference error leaves the
\* Relation map, the graph, the Entity map, the indexes and the files as
\* they were.
C4_InvalidReferenceMutatesNothing ==
    \A p \in RelationPayloads, ts \in Readings :
        add_relation_raises(Self, p) => add_relation(Self, p, ts) = Self

\* C5: add_entity on a store holding max_entities entities leaves it holding
\* max_entities entities, whatever the payload.
C5_CountStaysAtCapacity ==
    \A p \in EntityPayloads, ts \in Readings :
        Len(entity_keys) = max_entities =>
            Cardinality(DOMAIN add_entity(Self, p, ts).entities) = max_entities

\* C6: add_entity at capacity removes an entity of least
\* importance * (1 + 0.1 * access_count) among those present before the
\* call, and the id it returns is in the Entity map afterwards.
C6_EvictsLeastScore ==
    \A p \in EntityPayloads, ts \in Readings :
        Len(entity_keys) >= max_entities =>
            LET after == add_entity(Self, p, ts).entities
                score(e) == entities[e].importance * (10 + entities[e].access_count)
            IN  /\ NewEntityId(p, ts) \in DOMAIN after
                /\ \E v \in DOMAIN entities :
                      /\ \A e \in DOMAIN entities : score(v) <= score(e)
                      /\ DOMAIN after
                            = (DOMAIN entities \ {v}) \cup {NewEntityId(p, ts)}

\* C6 witness: at capacity two entities of equal importance differ in
\* access_count, and a new entity scoring below both is added: the one never
\* read is evicted and the new one stays.
C6_Witness ==
    \E p \in EntityPayloads, ts \in Readings :
        LET after == add_entity(Self, p, ts).entities
            id == NewEntityId(p, ts)
        IN  /\ Len(entity_keys) = max_entities
            /\ id \notin DOMAIN entities
            /\ \A e \in DOMAIN entities : entities[e].importance > p.importance
            /\ \E x, y \in DOMAIN entities :
                  /\ entities[x].importance = entities[y].importance
                  /\ entities[x].access_count > entities[y].access_count
                  /\ DOMAIN after = {x, id}

\* C7: the Entity map never holds more than max_entities entities.
C7_BoundedEntities == Cardinality(DOMAIN entities) <= max_entities

\* C7 witness: an entity with a new id is added to a full store, which is
\* full again afterwards.
C7_Witness ==
    \E p \in EntityPayloads, ts \in Readings :
        /\ Len(entity_keys) = max_entities
        /\ NewEntityId(p, ts) \notin DOMAIN entities
        /\ Cardinality(DOMAIN add_entity(Self, p, ts).entities) = max_entities

\* C8: the Relation map never holds more than max_relations relations, and
\* an add_relation that succeeds at capacity removes one relation of least
\* importance among those present and then stores the new one, the others
\* staying as they were.
C8_EvictsLeastImportantRelation ==
    /\ Cardinality(DOMAIN relations) <= max_relations
    /\ \A p \in RelationPayloads, ts \in Readings :
          (Len(relation_keys) = max_relations /\ ~add_relation_raises(Self, p)) =>
              LET after == add_relation(Self, p, ts).relations
                  rid == RelationId(ts)
              IN  \E v \in DOMAIN relations :
                      /\ \A r \in DOMAIN relations :
                            relations[v].importance <= relations[r].importance
                      /\ DOMAIN after = (DOMAIN relations \ {v}) \cup {rid}
                      /\ \A r \in DOMAIN relations \ {v, rid} :
                            after[r] = relations[r]

\* C8 witness: at capacity the younger relation is the less important one,
\* and a relation with a new id is added: the younger one goes.
C8_Witness ==
    \E p \in RelationPayloads, ts \in Readings :
        /\ Len(relation_keys) = max_relations
        /\ ~add_relation_raises(Self, p)
        /\ RelationId(ts) \notin DOMAIN relations
        /\ relations[relation_keys[1]].importance
              > relations[relation_keys[2]].importance
        /\ DOMAIN add_relation(Self, p, ts).relations
              = {relation_keys[1], RelationId(ts)}

\* C9: remove_entity of a stored entity x leaves no relation from or to x,
\* takes x out of the Entity map, and leaves every relation with neither
\* end at x as it was.
C9_CascadeRemoval ==
    \A x \in DOMAIN entities :
        LET after == remove_entity(Self, x)
        IN  /\ remove_entity_returns(Self, x)
            /\ x \notin DOMAIN after.entities
            /\ \A r \in DOMAIN after.relations :
                  after.relations[r].source # x /\ after.relations[r].target # x
            /\ \A r \in DOMAIN relations :
                  (relations[r].source # x /\ relations[r].target # x) =>
                      /\ r \in DOMAIN after.relations
                      /\ after.relations[r] = relations[r]

\* C9 witness: x is removed from a store with a relation into x from
\* another entity and a relation that does not touch x.
C9_Witness ==
    \E x \in DOMAIN entities :
        /\ \E r \in DOMAIN relations :
              relations[r].target = x /\ relations[r].source # x
        /\ \E r \in DOMAIN relations :
              relations[r].target # x /\ relations[r].source # x
        /\ Cardinality(DOMAIN remove_entity(Self, x).relations) = 1

\* C10: for a bidirectional relation r, remove_relation(r) and
\* remove_relation(reverse_r) each return true and leave neither record in
\* the Relation map and neither edge in the graph.
C10_EitherDirectionRemovesBoth ==
    \A r \in DOMAIN relations :
        relations[r].bidirectional =>
            \A d \in {r, ReverseId(r)} :
                LET after == remove_relation(Self, d)
                IN  /\ remove_relation_returns(Self, d)
                    /\ DOMAIN after.relations \cap {r, ReverseId(r)} = {}
                    /\ \A e \in after.graph.edges : e.key \notin {r, ReverseId(r)}

\* C11: add_relation of a bidirectional relation from id1 to id2, returning
\* rid, leaves in the graph an edge id1 -> id2 keyed rid and an edge
\* id2 -> id1 keyed reverse_rid; remove_relation(rid) then takes both out of
\* the graph and leaves every other edge and every node as it was.
C11_BidirectionalEdges ==
    \A p \in RelationPayloads, ts \in Readings :
        (p.bidirectional /\ ~add_relation_raises(Self, p)) =>
            LET rid == RelationId(ts)
                added == add_relation(Self, p, ts)
                removed == remove_relation(added, rid)
                pair == {e \in added.graph.edges :
                            \/ e.u = p.source /\ e.v = p.target /\ e.key = rid
                            \/ e.u = p.target /\ e.v = p.source
                                  /\ e.key = ReverseId(rid)}
            IN  /\ has_edge(added.graph, p.source, p.target, rid)
                /\ has_edge(added.graph, p.target, p.source, ReverseId(rid))
                /\ remove_relation_returns(added, rid)
                /\ ~has_edge(removed.graph, p.source, p.target, rid)
                /\ ~has_edge(removed.graph, p.target, p.source, ReverseId(rid))
                /\ removed.graph.edges = added.graph.edges \ pair
                /\ removed.graph.nodes = added.graph.nodes

\* C11 witness: a bidirectional relation is added beside another relation
\* between the same two entities, whose edge is still there when the
\* bidirectional one has been removed.
C11_Witness ==
    \E p \in RelationPayloads, ts \in Readings :
        LET rid == RelationId(ts)
            added == add_relation(Self, p, ts)
            removed == remove_relation(added, rid)
        IN  /\ p.bidirectional /\ ~add_relation_raises(Self, p)
            /\ p.source # p.target
            /\ \E r \in DOMAIN added.relations \ {rid} :
                  /\ added.relations[r].source = p.source
                  /\ added.relations[r].target = p.target
                  /\ has_edge(removed.graph, p.source, p.target, r)
            /\ Cardinality(added.graph.edges) = Cardinality(removed.graph.edges) + 2


\* C12: from_dict(to_dict(store)) on a second store gives an Entity map, a
\* Relation map, a type_index and an attribute_index equal to those of the
\* first store: the same ids in the same order, the same field values.
C12_RoundTrip ==
    /\ ~to_dict_raises(Self)
    /\ LET second == from_dict(EmptyStore(config), to_dict(Self))
       IN  /\ second.entities = entities
           /\ second.entity_keys = entity_keys
           /\ second.relations = relations
           /\ second.relation_keys = relation_keys
           /\ second.type_index = type_index
           /\ second.attribute_index = attribute_index

\* C12 witness: the store converted holds an entity that has been read, an
\* attribute index entry, an index entry of an entity that is gone, and a
\* relation.
C12_Witness ==
    /\ \E e \in DOMAIN entities : entities[e].access_count > 0
    /\ \E n \in DOMAIN attribute_index : \E v \in DOMAIN attribute_index[n] :
          attribute_index[n][v] \cap DOMAIN entities # {}
    /\ \E t \in DOMAIN type_index : ~(type_index[t] \subseteq DOMAIN entities)
    /\ relation_keys # <<>>
    /\ from_dict(EmptyStore(config), to_dict(Self)).entities = entities


\* C13: get_entity of a stored id adds exactly 1 to that entity's
\* access_count, n reads in a row add n, and the reads leave every other
\* entity, the set and order of entity ids, the Relation map, the graph and
\* the indexes as they were.
C13_ReadAddsOne ==
    \A x \in DOMAIN entities :
        LET after == get_entity(Self, x)
        IN  /\ after.entities[x].access_count = entities[x].access_count + 1
            /\ get_entity_returns(Self, x).access_count = entities[x].access_count + 1
            /\ \A n \in 0..(MaxAccess + 1) :
                  GetEntityTimes(Self, x, n).entities[x].access_count
                      = entities[x].access_count + n
            /\ \A e \in DOMAIN entities \ {x} : after.entities[e] = entities[e]
            /\ after.entity_keys = entity_keys
            /\ after.relations = relations /\ after.relation_keys = relation_keys
            /\ after.graph = graph
            /\ after.type_index = type_index
            /\ after.attribute_index = attribute_index

\* C13 witness: an entity that has been read before is read again, in a
\* store with a second entity, a relation and an attribute index.
C13_Witness ==
    \E x \in DOMAIN entities :
        /\ entities[x].access_count > 0
        /\ get_entity(Self, x).entities[x].access_count > 1
        /\ Cardinality(DOMAIN entities) > 1
        /\ relation_keys # <<>>
        /\ DOMAIN attribute_index # {}


\* the ids a caller may hold that are not in the store: one never issued,
\* those of entities and relations that are gone, and the reverse_ ids
AbsentEntityIds == ({Missing} \cup CallerIds) \ DOMAIN entities

AbsentRelationIds ==
    ({Missing} \cup {RelationId(ts) : ts \in 0..MaxClock}
        \cup {ReverseId(RelationId(ts)) : ts \in 0..MaxClock}) \ DOMAIN relations

\* C14: get_entity, remove_entity and remove_relation of an id that is not
\* in the store return None, False and False, and leave the Entity map, the
\* Relation map, the graph, the indexes and the files as they were.
C14_AbsentIdIsNoOp ==
    /\ \A x \in AbsentEntityIds :
          /\ get_entity_returns(Self, x) = None
          /\ get_entity(Self, x) = Self
          /\ ~remove_entity_returns(Self, x)
          /\ remove_entity(Self, x) = Self
    /\ \A r \in AbsentRelationIds :
          /\ ~remove_relation_returns(Self, r)
          /\ remove_relation(Self, r) = Self

\* C14 witness: the store holds a bidirectional relation, whose reverse_ id
\* is not the id of a record although an edge has it as key, and a relation
\* that was there is gone.
C14_Witness ==
    /\ \E r \in DOMAIN relations :
          /\ relations[r].bidirectional
          /\ ReverseId(r) \in AbsentRelationIds
          /\ \E e \in graph.edges : e.key = ReverseId(r)
          /\ remove_relation(Self, ReverseId(r)) = Self
    /\ remove_entity(Self, Missing) = Self
    /\ get_entity(Self, Missing) = Self
    /\ \E r \in AbsentRelationIds : r = RelationId(0)


\* C15: after cleanup the store holds no entity with importance < 0.1 and
\* access_count = 0 and no relation with importance < 0.1; every entity
\* that was not such an entity is still there as it was; and a relation is
\* still there exactly when its importance is at least 0.1 and both its
\* ends are still there.
C15_CleanupSweeps ==
    LET after == cleanup(Self)
    IN  /\ \A e \in DOMAIN after.entities :
              ~(after.entities[e].importance < 10
                  /\ after.entities[e].access_count = 0)
        /\ \A r \in DOMAIN after.relations : after.relations[r].importance >= 10
        /\ \A e \in DOMAIN entities :
              ~(entities[e].importance < 10 /\ entities[e].access_count = 0) =>
                  e \in DOMAIN after.entities /\ after.entities[e] = entities[e]
        /\ DOMAIN after.entities \subseteq DOMAIN entities
        /\ DOMAIN after.relations \subseteq DOMAIN relations
        /\ \A r \in DOMAIN relations :
              r \in DOMAIN after.relations <=>
                  /\ relations[r].importance >= 10
                  /\ relations[r].source \in DOMAIN after.entities
                  /\ relations[r].target \in DOMAIN after.entities
        /\ \A r \in DOMAIN after.relations : after.relations[r] = relations[r]

\* C15 witness: cleanup runs on a store with an entity of low importance
\* that was read (kept), one that was never read (swept), and two relations
\* of default importance and low importance between them (both swept, the
\* first because an end is gone).
C15_Witness ==
    LET after == cleanup(Self)
    IN  /\ \E x, y \in DOMAIN entities :
              /\ entities[x].importance < 10 /\ entities[x].access_count > 0
              /\ entities[y].importance < 10 /\ entities[y].access_count = 0
              /\ DOMAIN after.entities = {x}
        /\ \E r, q \in DOMAIN relations :
              relations[r].importance >= 10 /\ relations[q].importance < 10
        /\ after.relation_keys = <<>>


\* C16: for every limit >= 0, query returns at most limit results in order
\* of non-increasing relevance, and they are the first limit elements of
\* all the matches sorted by relevance, entities and relations together:
\* as many as there are matches up to limit, each a match, none twice, and
\* no match left out has a greater relevance than one returned.
C16_TopByRelevance ==
    \A query_text \in QueryTexts, limit \in Limits :
        LET results == query(Self, query_text, limit)
            all == Matches(Self, query_text)
            left_out == Range(all) \ Range(results)
        IN  /\ Len(results) <= limit
            /\ Len(results) = IF Len(all) < limit THEN Len(all) ELSE limit
            /\ \A i, j \in 1..Len(results) :
                  i < j => /\ results[i].relevance >= results[j].relevance
                           /\ results[i] # results[j]
            /\ Range(results) \subseteq Range(all)
            /\ \A m \in left_out : \A i \in 1..Len(results) :
                  results[i].relevance >= m.relevance

\* C16 witness: more matches than limit, found in an order that is not the
\* order of relevance, and a relation that is returned ahead of an entity
\* while a match of lower relevance is left out.
C16_Witness ==
    \E query_text \in QueryTexts, limit \in Limits :
        LET results == query(Self, query_text, limit)
            all == Matches(Self, query_text)
        IN  /\ Len(all) > limit /\ limit >= 2
            /\ all[1].relevance < all[2].relevance
            /\ \E i, j \in 1..Len(results) :
                  /\ i < j
                  /\ results[i].type = "relation" /\ results[j].type = "entity"
                  /\ results[i].relevance > results[j].relevance

\* C17: in query an entity's relevance is 1.0 if the text is in its name,
\* plus 0.8 if it is in its description, plus 0.5 for each attribute value
\* it is in, plus 0.3 if it is in its type, plus 0.3 times its importance;
\* a relation's is 0.8 if the text is in its type plus 0.2 times its
\* importance; upper and lower case are the same; and the untruncated
\* result holds exactly the entities and relations of relevance > 0, each
\* with that relevance.
C17_Relevance ==
    \A query_text \in QueryTexts :
        LET t == lower(query_text)
            results == query(Self, query_text,
                             Len(entity_keys) + Len(relation_keys))
            found(kind, id, relevance) ==
                \E i \in 1..Len(results) :
                    /\ results[i].type = kind /\ results[i].id = id
                    /\ results[i].relevance = relevance
            listed(kind, id) ==
                \E i \in 1..Len(results) :
                    results[i].type = kind /\ results[i].id = id
        IN  /\ \A e \in DOMAIN entities :
                  LET entity == entities[e]
                      relevance ==
                          (IF contains(lower(entity.name), t) THEN 1000 ELSE 0)
                          + (IF contains(lower(entity.description), t)
                             THEN 800 ELSE 0)
                          + 500 * Cardinality(
                                {n \in DOMAIN entity.attributes :
                                    contains(lower(entity.attributes[n]), t)})
                          + (IF contains(lower(entity.type), t) THEN 300 ELSE 0)
                          + 3 * entity.importance
                  IN  IF relevance > 0 THEN found("entity", e, relevance)
                      ELSE ~listed("entity", e)
            /\ \A r \in DOMAIN relations :
                  LET relation == relations[r]
                      relevance ==
                          (IF contains(lower(relation.type), t) THEN 800 ELSE 0)
                          + 2 * relation.importance
                  IN  IF relevance > 0 THEN found("relation", r, relevance)
                      ELSE ~listed("relation", r)
            /\ Len(results)
                  = Cardinality({i \in 1..Len(results) :
                                    \/ /\ results[i].type = "entity"
                                       /\ results[i].id \in DOMAIN entities
                                    \/ /\ results[i].type = "relation"
                                       /\ results[i].id \in DOMAIN relations})

\* C17 witness: "PY" is searched in a store with an entity whose
\* description and two attribute values hold "py", an entity of relevance
\* 0 and a relation of importance 0 whose type holds "python".
C17_Witness ==
    LET results == query(Self, "PY", Len(entity_keys) + Len(relation_keys))
    IN  /\ \E i \in 1..Len(results) :
              results[i].type = "entity" /\ results[i].relevance = 800 + 1000 + 150
        /\ \E i \in 1..Len(results) :
              results[i].type = "relation" /\ results[i].relevance = 800
        /\ \E e \in DOMAIN entities : EntityRelevance(entities[e], "py") = 0
        /\ Len(results) = Len(relation_keys)  + Len(entity_keys) - 1
        /\ Len(relation_keys) = 2


\* there is a walk of exactly k edges from x to y, each followed from its
\* source to its target
RECURSIVE Walk(_, _, _, _)
Walk(g, x, y, k) ==
    IF k = 0 THEN x = y
    ELSE \E e \in g.edges : e.u = x /\ Walk(g, e.v, y, k - 1)

\* C18: find_related_entities(a, max_depth = d) without relation_types
\* returns exactly the stored entities b # a whose shortest directed
\* distance from a in the graph is between 1 and d, each once, with that
\* distance as relationship_distance and 1 / (distance + 1) as
\* relationship_strength, in order of non-increasing strength.
C18_RelatedWithinDepth ==
    \A a \in DOMAIN entities, d \in Depths :
        LET results == find_related_entities_returns(Self, a, {}, d)
            within == {b \in DOMAIN entities \ {a} :
                          \E k \in 1..d : Walk(graph, a, b, k)}
            distance(b) ==
                CHOOSE k \in 1..d :
                    Walk(graph, a, b, k) /\ \A j \in 0..(k - 1) : ~Walk(graph, a, b, j)
        IN  /\ ~find_related_entities_raises(Self, a, {}, d)
            /\ {results[i].id : i \in 1..Len(results)} = within
            /\ Len(results) = Cardinality(within)
            /\ \A i \in 1..Len(results) :
                  /\ results[i].relationship_distance = distance(results[i].id)
                  /\ results[i].relationship_strength
                        = [num |-> 1, den |-> distance(results[i].id) + 1]
            /\ \A i, j \in 1..Len(results) :
                  i < j => results[i].relationship_strength.den
                              <= results[j].relationship_strength.den

\* C18 witness: from "a" the graph leads to "b" and from "b" to "c" and
\* back to "a"; with max_depth 1 the call on "a" returns "b" at strength
\* 1/2 and not "c", with max_depth 2 it returns "b" and then "c", and the
\* call on "c" returns nothing.
C18_Witness ==
    /\ {"a", "b", "c"} \subseteq DOMAIN entities
    /\ Walk(graph, "b", "a", 1) /\ ~Walk(graph, "c", "b", 1) /\ ~Walk(graph, "a", "c", 1)
    /\ LET one == find_related_entities_returns(Self, "a", {}, 1)
           two == find_related_entities_returns(Self, "a", {}, 2)
       IN  /\ Len(one) = 1 /\ one[1].id = "b"
           /\ one[1].relationship_strength = [num |-> 1, den |-> 2]
           /\ Len(two) = 2 /\ two[1].id = "b" /\ two[2].id = "c"
           /\ two[2].relationship_distance = 2
    /\ find_related_entities_returns(Self, "c", {}, MaxDepth) = <<>>
    /\ \E e \in DOMAIN entities : entities[e].access_count > 0

\* C19: find_related_entities with a non-empty relation_types does not
\* raise.
C19_TypeFilterDoesNotRaise ==
    \A a \in DOMAIN entities, T \in TypeFilters \ {{}}, d \in Depths :
        ~find_related_entities_raises(Self, a, T, d)


\* C20: infer results are cached per (query, max_depth): a call for a key
\* in the cache returns the cached list and changes neither the cache nor
\* the store; a call for a key not in the cache caches the list it returns
\* and leaves the other entries alone; and no step of any operation
\* (add_entity, add_relation, remove_entity, remove_relation, cleanup,
\* add_rule, infer) removes or changes an entry of the cache.
C20_CacheIsNeverInvalidated ==
    /\ [](\A query_text \in InferTexts, max_depth \in InferDepths :
            LET key == cache_key(query_text, max_depth)
                out == infer(Self, reasoning_rules, inference_cache,
                             query_text, max_depth)
            IN  /\ key \in DOMAIN out.cache
                /\ out.returns = out.cache[key]
                /\ \A k \in DOMAIN inference_cache :
                      k \in DOMAIN out.cache /\ out.cache[k] = inference_cache[k]
                /\ key \in DOMAIN inference_cache =>
                      out.returns = inference_cache[key] /\ out.store = Self)
    /\ [][\A k \in DOMAIN inference_cache :
              /\ k \in DOMAIN inference_cache'
              /\ inference_cache'[k] = inference_cache[k]]_vars

\* C20 witness: two keys are cached, and for one of them the store and the
\* rules have changed since, so that computing again would give another
\* list than the one infer returns.
C20_Witness ==
    /\ Cardinality(DOMAIN inference_cache) = 2
    /\ reasoning_rules # <<>>
    /\ \E query_text \in InferTexts, max_depth \in InferDepths :
          LET key == cache_key(query_text, max_depth)
          IN  /\ key \in DOMAIN inference_cache
              /\ inference_cache[key] # <<>>
              /\ \A i \in 1..Len(inference_cache[key]) :
                    inference_cache[key][i].type # "inference"
              /\ Inferred(Self, reasoning_rules, query_text, max_depth).results
                    # inference_cache[key]
              /\ infer(Self, reasoning_rules, inference_cache, query_text,
                       max_depth).returns = inference_cache[key]


\* C21: on a cache miss infer returns the direct, the rule-based and the
\* graph-based results, in that order, with only the first record of each
\* id kept, sorted by non-increasing relevance and cut to at most 10: no
\* two records it returns have the same id, each is the first of its id in
\* the concatenation, and a first record that is left out is no more
\* relevant than any that is returned.
C21_MergedResults ==
    \A query_text \in MergeTexts, max_depth \in MergeDepths :
        LET returned == infer(Self, reasoning_rules, inference_cache,
                              query_text, max_depth).returns
            merged == query(Self, query_text, DefaultLimit)
                          \o _apply_rules(reasoning_rules, query_text)
                          \o _graph_reasoning(Self, query_text, max_depth).results
            firsts == {k \in 1..Len(merged) :
                          \A m \in 1..(k - 1) : merged[m].id # merged[k].id}
        IN  cache_key(query_text, max_depth) \notin DOMAIN inference_cache =>
                /\ Len(returned) <= 10
                /\ Len(returned) = IF Cardinality(firsts) < 10
                                   THEN Cardinality(firsts) ELSE 10
                /\ \A i, j \in 1..Len(returned) :
                      i < j => /\ returned[i].id # returned[j].id
                               /\ Rank(returned[i]) >= Rank(returned[j])
                /\ \A i \in 1..Len(returned) :
                      \E k \in firsts : merged[k] = returned[i]
                /\ \A k \in firsts :
                      (\A i \in 1..Len(returned) : returned[i] # merged[k])
                          => \A i \in 1..Len(returned) :
                                Rank(returned[i]) >= Rank(merged[k])

\* C21 witness: a key is not in the cache; the three lists hold more than
\* 10 distinct ids, the rule's inference has the id of a direct result, and
\* infer returns 10 records, among them a direct, and a graph-based one but
\* not the rule's.
C21_Witness ==
    \E query_text \in MergeTexts, max_depth \in MergeDepths :
        LET returned == infer(Self, reasoning_rules, inference_cache,
                              query_text, max_depth).returns
            merged == query(Self, query_text, DefaultLimit)
                          \o _apply_rules(reasoning_rules, query_text)
                          \o _graph_reasoning(Self, query_text, max_depth).results
        IN  /\ cache_key(query_text, max_depth) \notin DOMAIN inference_cache
            /\ Cardinality({merged[k].id : k \in 1..Len(merged)}) > 10
            /\ \E k \in 1..Len(merged) :
                  merged[k].type = "inference" /\ merged[k].id \in DOMAIN entities
            /\ Len(returned) = 10
            /\ \E i \in 1..10 : returned[i].type = "entity"
            /\ \E i \in 1..10 : returned[i].type = "graph_inference"
            /\ \A i \in 1..10 : returned[i].type # "inference"


\* C22 as claimed: a rule fires if and only if at least one of its premises
\* is a substring of the lower-cased query; each rule that fires yields one
\* record, in the order of the rules.
C22_FiresOnPremiseInQuery ==
    \A query_text \in RuleTexts :
        LET query_lower == lower(query_text)
            results == _apply_rules(reasoning_rules, query_text)
            firing == {i \in 1..Len(reasoning_rules) :
                          \E p \in Range(reasoning_rules[i].premises) :
                              contains(query_lower, p)}
        IN  /\ Len(results) = Cardinality(firing)
            /\ \A i \in firing :
                  results[Cardinality({j \in firing : j <= i})].id
                      = "inference_" \o reasoning_rules[i].id

\* C22, amended: a rule fires if and only if at least one of its premises,
\* lower-cased, is a substring of the lower-cased query; a rule that fires
\* yields exactly one record, with id inference_<rule id>, the rule's
\* conclusion as content, the rule's confidence and relevance 0.7, however
\* many of its premises match; a rule with no premises never fires.
C22_FiresOnLoweredPremiseInQuery ==
    \A query_text \in RuleTexts :
        LET query_lower == lower(query_text)
            results == _apply_rules(reasoning_rules, query_text)
            firing == {i \in 1..Len(reasoning_rules) :
                          \E p \in Range(reasoning_rules[i].premises) :
                              contains(query_lower, lower(p))}
        IN  /\ Len(results) = Cardinality(firing)
            /\ \A i \in firing :
                  LET rule == reasoning_rules[i]
                      record == results[Cardinality({j \in firing : j <= i})]
                  IN  /\ rule.premises # <<>>
                      /\ record.id = "inference_" \o rule.id
                      /\ record.content = rule.conclusion
                      /\ record.confidence = rule.confidence
                      /\ record.relevance = 700
            /\ \A i \in 1..Len(results) : results[i].type = "inference"

\* C22 witness: the engine holds a rule two of whose premises are in the
\* query and a rule without premises; infer has been called, and the list it
\* cached holds one record of the first rule and none of the second.
C22_Witness ==
    \E query_text \in RuleTexts :
        LET query_lower == lower(query_text)
            key == cache_key(query_text, 1)
        IN  /\ Len(reasoning_rules) = 2
            /\ reasoning_rules[2].premises = <<>>
            /\ Cardinality({p \in Range(reasoning_rules[1].premises) :
                               contains(query_lower, lower(p))}) = 2
            /\ key \in DOMAIN inference_cache
            /\ inference_cache[key] = _apply_rules(reasoning_rules, query_text)
            /\ Len(inference_cache[key]) = 1
            /\ inference_cache[key][1].id = "inference_" \o reasoning_rules[1].id


\* C23: in graph-based inference every entity result A of the direct query
\* and every entity B that find_related_entities(A.id, max_depth) returns
\* give exactly one inference, whose confidence is B's relationship_strength
\* and whose relevance is that strength times 0.8; there is no other
\* inference, so the relation results of the direct query give none.
C23_OneInferencePerRelatedEntity ==
    \A query_text \in MergeTexts, max_depth \in InferDepths :
        LET results == _graph_reasoning(Self, query_text, max_depth).results
            direct == query(Self, query_text, DefaultLimit)
            pairs ==
                {<<i, j>> \in (1..Len(direct)) \X (1..Cardinality(DOMAIN entities)) :
                    /\ direct[i].type = "entity"
                    /\ j <= Len(find_related_entities_returns(
                                    Self, direct[i].id, {}, max_depth))}
        IN  /\ Len(results) = Cardinality(pairs)
            /\ \A pair \in pairs :
                  LET A == direct[pair[1]]
                      B == find_related_entities_returns(
                               Self, A.id, {}, max_depth)[pair[2]]
                      made == {k \in 1..Len(results) :
                                  results[k].id
                                      = "graph_inference_" \o A.id \o "_" \o B.id}
                  IN  /\ Cardinality(made) = 1
                      /\ \A k \in made :
                            /\ results[k].confidence = B.relationship_strength
                            /\ results[k].relevance.num * 10 * B.relationship_strength.den
                                   = 8 * B.relationship_strength.num
                                         * 1000 * results[k].relevance.den

\* C23 witness: the direct query has entity results and relation results;
\* one entity has a related entity one relation away and another two
\* relations away, which give inferences of relevance 0.4 and 0.8 / 3, and
\* infer has cached a graph-based inference.
C23_Witness ==
    \E query_text \in MergeTexts :
        LET direct == query(Self, query_text, DefaultLimit)
            results == _graph_reasoning(Self, query_text, MaxDepth).results
            key == cache_key(query_text, MaxDepth)
        IN  /\ \E i \in 1..Len(direct) : direct[i].type = "relation"
            /\ \E i \in 1..Len(direct) :
                  /\ direct[i].type = "entity"
                  /\ Len(find_related_entities_returns(
                             Self, direct[i].id, {}, MaxDepth)) = 2
            /\ \E i, j \in 1..Len(results) :
                  /\ results[i].relevance = [num |-> 800, den |-> 2]
                  /\ results[j].relevance = [num |-> 800, den |-> 3]
            /\ key \in DOMAIN inference_cache
            /\ \E i \in 1..Len(inference_cache[key]) :
                  inference_cache[key][i].type = "graph_inference"


\* C24: explain_reasoning(id) returns an explanation if and only if some
\* cached result list holds a record of that id, and the not-found error
\* value otherwise; the explanation is of a cached record of that id, and
\* its confidence commentary is the high one exactly when that record's
\* confidence is above 0.8, the moderate one exactly when it is above 0.6
\* and at most 0.8, and the low one otherwise.
C24_ExplainsCachedInferences ==
    \A inference_id \in ExplainIds :
        LET out == explain_reasoning(inference_cache, inference_cache_keys,
                                     inference_id)
            cached == {r \in UNION {Range(inference_cache[k]) :
                                       k \in DOMAIN inference_cache} :
                          r.id = inference_id}
        IN  /\ "explanation" \in DOMAIN out <=> cached # {}
            /\ cached = {} => out = [error |-> "Inference not found"]
            /\ cached # {} =>
                  LET c == out.inference.confidence
                      commentary == out.confidence_factors[1]
                  IN  /\ out.inference \in cached
                      /\ out.inference.type # "graph_inference"
                      /\ commentary = "High confidence based on strong evidence"
                            <=> c > 80
                      /\ commentary = "Moderate confidence based on available evidence"
                            <=> (60 < c /\ c <= 80)
                      /\ commentary = "Lower confidence due to limited evidence"
                            <=> c <= 60

\* C24 witness: the cache holds the inferences of rules of confidence 0.8
\* and 0.6 and an entity result of confidence 1.0, which are explained as
\* moderate, low and high; an entity stored after the results were cached
\* is not found.
C24_Witness ==
    LET explained(id) == explain_reasoning(inference_cache,
                                           inference_cache_keys, id)
    IN  /\ "explanation" \in DOMAIN explained("inference_r1")
        /\ explained("inference_r1").inference.confidence = 80
        /\ explained("inference_r1").confidence_factors
              = <<"Moderate confidence based on available evidence",
                  "Based on established reasoning rules">>
        /\ "explanation" \in DOMAIN explained("inference_r2")
        /\ explained("inference_r2").inference.confidence = 60
        /\ explained("inference_r2").confidence_factors[1]
              = "Lower confidence due to limited evidence"
        /\ "explanation" \in DOMAIN explained("a")
        /\ explained("a").confidence_factors
              = <<"High confidence based on strong evidence">>
        /\ explained("a").explanation
              = "This inference was generated through logical reasoning."
        /\ "b" \in DOMAIN entities
        /\ explained("b") = NotFound
        /\ explained(Missing) = NotFound


\* the fields of a store value that are in memory
Memory(s) ==
    <<s.entities, s.entity_keys, s.relations, s.relation_keys, s.graph,
      s.type_index, s.attribute_index>>

\* C25 as claimed: when a save of a mutating call fails, the call goes on
\* as it does when nothing fails and leaves the memory it leaves then, and
\* no .tmp file is left behind.
C25_FailedSaveLeavesNoTemp ==
    \A plan \in FailPlans :
        /\ \A p \in SaveEntityPayloads, ts \in Readings :
              LET out == add_entity(SelfUnder(plan), p, ts)
              IN  out.io.saves >= plan.on =>
                      /\ Memory(out) = Memory(add_entity(Self, p, ts))
                      /\ \A f \in TempFiles : out.disk[f] = <<>>
        /\ \A entity_id \in DOMAIN entities :
              LET out == remove_entity(SelfUnder(plan), entity_id)
              IN  out.io.saves >= plan.on =>
                      /\ Memory(out) = Memory(remove_entity(Self, entity_id))
                      /\ \A f \in TempFiles : out.disk[f] = <<>>

\* C25, amended: when a save of a mutating call fails, the call goes on as
\* it does when nothing fails: it leaves the memory it leaves then, so the
\* mutation is kept, and it returns what it returns then; every .tmp file
\* is removed except those whose removal itself fails.
C25_FailedSaveKeepsMutation ==
    \A plan \in FailPlans :
        /\ \A p \in SaveEntityPayloads, ts \in Readings :
              LET out == add_entity(SelfUnder(plan), p, ts)
              IN  out.io.saves >= plan.on =>
                      /\ Memory(out) = Memory(add_entity(Self, p, ts))
                      /\ NewEntityId(p, ts) \in DOMAIN out.entities
                      /\ ~out.io.crashed
                      /\ \A f \in TempFiles \ plan.sticky : out.disk[f] = <<>>
        /\ \A entity_id \in DOMAIN entities :
              LET out == remove_entity(SelfUnder(plan), entity_id)
              IN  out.io.saves >= plan.on =>
                      /\ Memory(out) = Memory(remove_entity(Self, entity_id))
                      /\ entity_id \notin DOMAIN out.entities
                      /\ ~out.io.crashed
                      /\ \A f \in TempFiles \ plan.sticky : out.disk[f] = <<>>

\* C25 witness: an entity added in this process is in memory and in none of
\* the three files, which hold an older snapshot, and there is no temp
\* file: the save of its add_entity failed.
C25_Witness ==
    /\ "a" \in DOMAIN entities
    /\ entities["a"].created_at = DateTime
    /\ "a" \in graph.nodes
    /\ disk.graph_file # <<>> /\ "a" \notin disk.graph_file[1].nodes
    /\ disk.entities_file # <<>> /\ disk.entities_file[1].keys = <<>>
    /\ disk.indexes_file # <<>>
    /\ \A f \in TempFiles : disk[f] = <<>>


\* C26: every target file is changed by the rename of a completely written
\* temp file alone, in the order knowledge_graph.json, entities.json,
\* kg_indexes.json.  Whatever operation of whatever save of a call raises
\* or is the one the process dies at, each target file then holds what it
\* held before the call or all of what one save of the call set out to
\* write, never a part of it; and when the last save of the call is cut
\* short, a target that it has changed comes after targets that hold its
\* new content.
C26_TargetsAreWholeFiles ==
    /\ \A f \in TargetFiles : disk[f] # <<Partial>>
    /\ \A plan \in FailPlans \cup CrashPlans \cup {NoFault} :
          \A call \in Calls(SelfUnder(plan), SaveEntityPayloads, {}) :
              LET out == call.out
                  log == out.io.log
                  before == IF out.io.saves = 1 THEN disk
                            ELSE [f \in TargetFiles |-> <<log[Len(log) - 1][f]>>]
                  new == [f \in TargetFiles |-> <<log[Len(log)][f]>>]
              IN  /\ \A f \in TargetFiles :
                        /\ out.disk[f] # <<Partial>>
                        /\ \/ out.disk[f] = disk[f]
                           \/ \E i \in 1..Len(log) : out.disk[f] = <<log[i][f]>>
                  /\ (log # <<>> /\ plan.on = out.io.saves) =>
                        /\ out.disk.entities_file # before.entities_file
                              => out.disk.graph_file = new.graph_file
                        /\ out.disk.indexes_file # before.indexes_file
                              => /\ out.disk.graph_file = new.graph_file
                                 /\ out.disk.entities_file = new.entities_file

\* C26 witness: the process died in its first save between the rename of
\* knowledge_graph.json and that of entities.json: the first holds the new
\* graph, the other two do not exist yet, and their temp files are written.
C26_Witness ==
    /\ disk.graph_file # <<>>
    /\ "a" \in disk.graph_file[1].nodes
    /\ disk.entities_file = <<>>
    /\ disk.indexes_file = <<>>
    /\ disk.graph_temp = <<>>
    /\ disk.entities_temp # <<>> /\ disk.entities_temp # <<Partial>>
    /\ disk.indexes_temp # <<>> /\ disk.indexes_temp # <<Partial>>


\* C27: a mutation API raises nothing but add_relation's invalid reference:
\* add_entity, remove_entity and cleanup complete for every payload, attribute
\* map and id, and add_entity in particular does not raise once the entity
\* is in the Entity map and the graph.
C27_MutationsRaiseOnlyInvalidReference ==
    /\ \A p \in ListEntityPayloads, ts \in Readings :
           ~add_entity(Self, p, ts).io.raised
    /\ \A entity_id \in DOMAIN entities \cup {Missing} :
           ~remove_entity(Self, entity_id).io.raised
    /\ ~cleanup(Self).io.raised
    /\ \A p \in PlainRelationPayloads, ts \in Readings :
           add_relation(Self, p, ts).io.raised => add_relation_raises(Self, p)
    /\ \A relation_id \in DOMAIN relations \cup {Missing} :
           ~remove_relation(Self, relation_id).io.raised


\* C28: in a store where an index holds an id that is not in the Entity
\* map, or the graph a node that is not in it, no read API raises:
\* find_entities_by_type, find_entities_by_attribute and
\* find_related_entities (here without relation_types) skip such ids and
\* return the rest.
C28_ReadsDoNotRaiseOnDanglingIds ==
    LET indexed ==
            UNION {type_index[t] : t \in DOMAIN type_index}
            \cup UNION {UNION {attribute_index[n][v] : v \in DOMAIN attribute_index[n]} :
                          n \in DOMAIN attribute_index}
        dangling == (indexed \cup graph.nodes) \ DOMAIN entities
    IN  dangling # {} =>
            /\ \A entity_type \in EntityTypes, limit \in Limits :
                   /\ ~find_entities_by_type_raises(Self, entity_type, limit)
                   /\ \A i \in DOMAIN find_entities_by_type_returns(Self, entity_type, limit) :
                          find_entities_by_type_returns(Self, entity_type, limit)[i].id
                              \in DOMAIN entities
            /\ \A attribute_name \in AttributeNames,
                  attribute_value \in AttributeValues, limit \in Limits :
                   ~find_entities_by_attribute_raises(Self, attribute_name,
                                                      attribute_value, limit)
            /\ \A entity_id \in DOMAIN entities \cup dangling, max_depth \in Depths :
                   ~find_related_entities_raises(Self, entity_id, {}, max_depth)


\* C29: durability.  After a mutating call has returned without an I/O
\* failure, a store constructed over the same directory holds the same
\* entity ids, the same Relation map (ids and endpoints), the same graph
\* edges and the same indexes as the store in memory.
C29_ReopenedStoreIsTheSame ==
    LET reopened == Reopened(config, disk)
    IN  /\ DOMAIN reopened.entities = DOMAIN entities
        /\ DOMAIN reopened.relations = DOMAIN relations
        /\ \A relation_id \in DOMAIN reopened.relations \cap DOMAIN relations :
               /\ reopened.relations[relation_id].source = relations[relation_id].source
               /\ reopened.relations[relation_id].target = relations[relation_id].target
        /\ reopened.graph.edges = graph.edges
        /\ reopened.type_index = type_index
        /\ reopened.attribute_index = attribute_index


\* C30: store-assigned ids are distinct.  A successful add_relation below
\* capacity returns an id that no stored relation has, so the Relation map
\* grows by exactly one; add_entity without a caller-supplied id takes no id
\* of an entity that is in the store when the new one is put in, whatever
\* the clock reads.
C30_StoreAssignedIdsAreDistinct ==
    /\ \A p \in PlainRelationPayloads, ts \in Readings :
           (/\ ~add_relation_raises(Self, p)
            /\ Len(relation_keys) < config.max_relations)
           => /\ RelationId(ts) \notin DOMAIN relations
              /\ Cardinality(DOMAIN add_relation(Self, p, ts).relations)
                     = Cardinality(DOMAIN relations) + 1
    /\ \A p \in {q \in EntityPayloads : q.id = ""}, ts \in Readings :
           NewEntityId(p, ts) \notin DOMAIN EntityCapacityCheck(Self).entities


\* C31: graph/view consistency.  In every state reached by add_entity,
\* add_relation, remove_entity, remove_relation, eviction and cleanup, the
\* nodes of the graph are the keys of the Entity map, and its edges are one
\* edge source -> target keyed by the id for each relation of the Relation
\* map and one edge target -> source keyed reverse_<id> for each
\* bidirectional one, and no other edge.
C31_GraphMatchesMaps ==
    /\ graph.nodes = DOMAIN entities
    /\ {<<e.u, e.v, e.key>> : e \in graph.edges}
           = {<<relations[r].source, relations[r].target, r>> : r \in DOMAIN relations}
             \cup {<<relations[r].target, relations[r].source, ReverseId(r)>> :
                     r \in {x \in DOMAIN relations : relations[x].bidirectional}}


\* C32: the graph from_dict rebuilds from the dictionary of to_dict has the
\* edges of the graph of the store that produced the dictionary, the
\* reverse_<id> edge of every bidirectional relation included, so that
\* find_related_entities returns the same entities on both stores.
C32_RebuiltGraphHasTheSameEdges ==
    LET rebuilt == from_dict(EmptyStore(config), to_dict(Self))
        ids(results) == {results[i].id : i \in DOMAIN results}
    IN  /\ rebuilt.graph.edges = graph.edges
        /\ \A entity_id \in DOMAIN entities, max_depth \in Depths :
               ids(find_related_entities_returns(rebuilt, entity_id, {}, max_depth))
                   = ids(find_related_entities_returns(Self, entity_id, {}, max_depth))


\* C33: every snapshot a save writes is consistent: each persisted entity
\* is filed under its type and under each of its attributes in the persisted
\* indexes, and each persisted edge joins two persisted entities.  This holds
\* of every save of a call, those issued from inside remove_entity's
\* relation cascade, from eviction and from cleanup included.
C33_EverySavedSnapshotIsConsistent ==
    LET consistent(snap) ==
            LET ents == snap.entities_file.entities
                ti == snap.indexes_file.type_index
                ai == snap.indexes_file.attribute_index
            IN  /\ \A e \in DOMAIN ents :
                       /\ ents[e].type \in DOMAIN ti
                       /\ e \in Range(ti[ents[e].type])
                       /\ \A n \in DOMAIN ents[e].attributes :
                              /\ n \in DOMAIN ai
                              /\ ents[e].attributes[n] \in DOMAIN ai[n]
                              /\ e \in Range(ai[n][ents[e].attributes[n]])
                /\ \A link \in snap.graph_file.links :
                       link.u \in DOMAIN ents /\ link.v \in DOMAIN ents
        saved(out) == \A i \in DOMAIN out.io.log : consistent(out.io.log[i])
    IN  /\ \A p \in PlainEntityPayloads, ts \in Readings : saved(add_entity(Self, p, ts))
        /\ \A p \in RelationPayloads, ts \in Readings : saved(add_relation(Self, p, ts))
        /\ \A entity_id \in DOMAIN entities : saved(remove_entity(Self, entity_id))
        /\ \A relation_id \in DOMAIN relations : saved(remove_relation(Self, relation_id))
        /\ saved(cleanup(Self))


\* C34: when knowledge_graph.json is readable and entities.json or
\* kg_indexes.json is missing or corrupt, the store the constructor leaves
\* is consistent: the nodes of its graph are the keys of its Entity map and
\* every indexed id is in its Entity map.
C34_PartlyLoadedStoreIsConsistent ==
    LET damaged ==
            {[disk EXCEPT !.entities_file = <<>>],
             [disk EXCEPT !.entities_file = <<Partial>>],
             [disk EXCEPT !.indexes_file = <<>>],
             [disk EXCEPT !.indexes_file = <<Partial>>]}
        indexed(s) ==
            UNION {s.type_index[t] : t \in DOMAIN s.type_index}
            \cup UNION {UNION {s.attribute_index[n][v] : v \in DOMAIN s.attribute_index[n]} :
                          n \in DOMAIN s.attribute_index}
    IN  \A files \in damaged :
            (files.graph_file # <<>> /\ files.graph_file[1] # Partial)
            => LET loaded == Reopened(config, files)
               IN  /\ loaded.graph.nodes = DOMAIN loaded.entities
                   /\ indexed(loaded) \subseteq DOMAIN loaded.entities


C36_QueryChangesNothing ==
    \A query_text \in QueryTexts, limit \in Limits :
        LET after == query_store(Self, query_text, limit)
        IN  /\ Memory(after) = Memory(Self)
            /\ \A e \in DOMAIN entities :
                   after.entities[e].access_count = entities[e].access_count
            /\ after.disk = disk
            /\ entity_keys # <<>>
               => LeastImportantEntity(after) = LeastImportantEntity(Self)

\* two entities are stored, one of them is found by a query, and one is
\* the next to be evicted
C36_Witness ==
    /\ Cardinality(DOMAIN entities) = 2
    /\ \E i \in DOMAIN query(Self, "python", MaxLimit) :
           query(Self, "python", MaxLimit)[i].type = "entity"
    /\ LeastImportantEntity(Self) \in DOMAIN entities
    /\ Len(entity_keys) >= config.max_entities


C38_LookupAgreesWithScan ==
    LET limit == Cardinality(DOMAIN entities)
        ids(results) == {results[i].id : i \in DOMAIN results}
    IN  /\ \A t \in EntityTypes :
               ids(find_entities_by_type_returns(Self, t, limit))
                   = {e \in DOMAIN entities : entities[e].type = t}
        /\ \A n \in AttributeNames, v \in AttributeValues :
               ids(find_entities_by_attribute_returns(Self, n, v, limit))
                   = {e \in DOMAIN entities :
                         /\ n \in DOMAIN entities[e].attributes
                         /\ entities[e].attributes[n] = v}


\* C39: find_related_entities terminates on every graph, whatever the
\* max_depth: the search runs its loop at most once per node of the graph
\* and at most max_depth times, also on graphs with self-loops, parallel
\* edges, cycles and bidirectional pairs, and the list returned holds each
\* reachable entity at most once.
C39_SearchTerminates ==
    \A a \in DOMAIN entities :
        /\ \A cutoff \in 0..(MaxDepth + Cardinality(graph.nodes)) :
               LET rounds == Rounds(graph, {a}, {a}, 0, cutoff)
               IN  rounds <= cutoff /\ rounds <= Cardinality(graph.nodes)
        /\ \A d \in Depths :
               LET returns == find_related_entities_returns(Self, a, {}, d)
               IN  /\ ~find_related_entities_raises(Self, a, {}, d)
                   /\ \A i, j \in DOMAIN returns :
                          returns[i].id = returns[j].id => i = j
                   /\ \A i \in DOMAIN returns :
                          \E k \in 1..d : Walk(graph, a, returns[i].id, k)

\* "a" has a self-loop and is joined to "b" in both directions, and the
\* search from "a" returns "b"
C39_Witness ==
    /\ \E e \in graph.edges : e.u = "a" /\ e.v = "a"
    /\ \E e \in graph.edges : e.u = "a" /\ e.v = "b"
    /\ \E e \in graph.edges : e.u = "b" /\ e.v = "a"
    /\ Len(find_related_entities_returns(Self, "a", {}, MaxDepth)) = 1
    /\ Rounds(graph, {"a"}, {"a"}, 0, MaxDepth + 2) < MaxDepth + 2


\* C40: the list extract_entities returns has no two candidates of the
\* same (start, end) span; for each span it holds the first candidate found
\* with it; every span found is in it, so candidates that overlap without
\* having the same span are all kept; and it is in order of non-decreasing
\* start.
C40_OneCandidatePerSpan ==
    LET span(c) == <<c.start, c.end>>
        first(sp) == candidates[CHOOSE k \in DOMAIN candidates :
                                    /\ span(candidates[k]) = sp
                                    /\ \A m \in 1..(k - 1) : span(candidates[m]) # sp]
    IN  /\ \A i, j \in DOMAIN unique_entities :
               span(unique_entities[i]) = span(unique_entities[j]) => i = j
        /\ \A i \in DOMAIN unique_entities :
               unique_entities[i] = first(span(unique_entities[i]))
        /\ {span(unique_entities[i]) : i \in DOMAIN unique_entities}
               = {span(candidates[k]) : k \in DOMAIN candidates}
        /\ \A i, j \in DOMAIN unique_entities :
               i <= j => unique_entities[i].start <= unique_entities[j].start

\* a later span is found first, one span is found twice with different
\* types, and two candidates overlap with different spans
C40_Witness ==
    /\ Len(candidates) = 3
    /\ candidates[1].start > candidates[2].start
    /\ \E i, j \in DOMAIN candidates :
           /\ i < j
           /\ candidates[i].start = candidates[j].start
           /\ candidates[i].end = candidates[j].end
           /\ candidates[i].type # candidates[j].type
    /\ \E i, j \in DOMAIN unique_entities :
           /\ unique_entities[i].start < unique_entities[j].start
           /\ unique_entities[j].start < unique_entities[i].end
    /\ Len(unique_entities) = 2

====
